---- MODULE Spec2Model ----
(***************************************************************************)
(* Model of the HubSpot webhook pipeline of moca-nest:                     *)
(*   - HubSpotSignatureGuard   (src/src/common/guards/hubspot-signature.guard.ts) *)
(*   - WebhookController       (src/src/modules/webhook/webhook.controller.ts)    *)
(*   - WebhookService          (src/src/modules/webhook/webhook.service.ts,       *)
(*                              lines 149-807, the earlier revision               *)
(*                              src/unnamed/part_016 whose contact path cascades, *)
(*                              and the first revision, lines 1-147 of            *)
(*                              webhook.service.ts, which stores the contact only)*)
(*   - HubSpotService          (src/src/modules/hubspot/hubspot.service.ts)       *)
(*   - Retry decorator         (src/src/common/constants/database-errors.ts)      *)
(*                                                                         *)
(* The remote CRM and the relational store are the environment: a remote   *)
(* call or a repository write may fail, which the model draws call by     *)
(* call. A handler goes on by one awaited call per step; the CRUD          *)
(* services, the seed script and other webhook requests run between them.  *)
(***************************************************************************)
EXTENDS Integers, Sequences, FiniteSets, TLC

VARIABLES
  appMode,      \* APP_MODE as configured, Null when it is not set
  webhookSecret,\* hubspot.webhookSecret read by the guard's constructor
  rawBody,      \* the body bytes received
  signedBody,   \* the body bytes the sender signed
  verdict,      \* outcome of the guard for the last request
  revision,     \* which revision of WebhookService is deployed
  pc,           \* position of the request being handled
  batch,        \* payload: sequence of webhook events
  header,       \* X-HubSpot-Signature header of the request
  idx,          \* index of the next event of the for-loop
  processed,    \* the loop's processed counter
  response,     \* last HTTP response
  db,           \* local store: contacts, companies, deals, lineItems
  rEmail,       \* remote CRM: email property of each contact
  rLineItems,   \* remote CRM: deal -> line item association list
  changes,      \* number of remote edits so far
  evCount,      \* number of events handled so far
  attempted,    \* indices of the batch whose root fetch was invoked
  threwAt,      \* indices of the batch whose processing threw
  lastEv,       \* the last handled event and its outcome
  redelivered,  \* the last handled event repeated the one before it
  ev,           \* the handler call in progress: its locals and the calls ahead
  conc,         \* other requests: how many began, the one in progress, its answer
  retry,        \* the retry loop in progress: attempt, delay, sleeps, outcome
  moca,         \* the call of MocaService.syncContact in progress
  seq,          \* one batch loop followed await by await: promises in flight
  race          \* two requests upserting into the contacts table at once

guardVars == <<appMode, webhookSecret, rawBody, signedBody, verdict>>

mainVars == <<revision, pc, batch, header, idx, processed, response, db,
              rEmail, rLineItems, changes, evCount, attempted, threwAt,
              lastEv, redelivered, ev, conc>>

vars == <<guardVars, mainVars, retry, moca, seq, race>>

-----------------------------------------------------------------------------
(* Bounds of the model *)
NContacts == 2
NCompanies == 3
NDeals == 2
NLineItems == 2
MaxBatch == 2
MaxEvents == 2
MaxChanges == 1
MaxFaults == 1
MaxBodyLen == 3
DigestLen == 4
MaxSyncs == 2

ContactIds == 1..NContacts
CompanyIds == 1..NCompanies
DealIds == 1..NDeals
LineItemIds == 1..NLineItems

Null == "null"
Emails == {"a@x", "b@x"}

-----------------------------------------------------------------------------
(* Remote CRM data. Names are fixed per object; the email of a contact and *)
(* the line items of a deal are edited by RemoteChange.                    *)

RECURSIVE UpTo(_)
UpTo(n) == IF n = 0 THEN <<>> ELSE Append(UpTo(n - 1), n)

RemoteContactCompanies(c) == IF c = 1 THEN UpTo(NCompanies) ELSE <<>>
RemoteContactDeals(c) == IF c = 1 THEN UpTo(NDeals) ELSE <<>>
RemoteDealContacts(d) == IF d = 1 THEN <<1, 2>> ELSE IF d = 2 THEN <<>> ELSE <<2>>
RemoteDealCompanies(d) == IF d = 1 THEN UpTo(NCompanies) ELSE <<>>

LineItemLists == {<<>>, UpTo(NLineItems)}

-----------------------------------------------------------------------------
(* HubSpotService: the calls the pipeline makes. F holds the call at hand   *)
(* when that call fails.                                                   *)

Call(name, id) == <<name, id>>

\* a call made inside the loop body of a parent: a line item is fetched and
\* upserted once for every deal that lists it
CallIn(name, id, parent) == <<name, id, parent>>

\* the remote property ct_moca_id_database, which the downstream system writes
\* to the contacts it knows: contact 2 has none
RemoteMocaId(c) == IF c = 2 THEN Null ELSE "moca"

\* the properties remote contact c holds in the CRM
RemoteContact(c, email) ==
  [firstname |-> <<"firstname", c>>, lastname |-> <<"lastname", c>>, email |-> email,
   ct_moca_id_database |-> RemoteMocaId(c)]

\* faulty variant: the fetch returns every property the contact holds
getContactByIdWithProperties(c, email) == RemoteContact(c, email)

\* getContactById requests firstname, lastname and email and builds
\* {firstname, lastname, email} from them, with '' for a missing property: no
\* other property of the contact is in the object it returns
getContactById(c, email) ==
  LET contact == RemoteContact(c, email)
  IN [firstname |-> contact.firstname, lastname |-> contact.lastname,
      email |-> contact.email]

\* faulty variant: the email is not looked at
acceptAnyContact(data) == TRUE

validateContactData(data) == data.email # ""

\* association reads swallow their failure and return []
getContactCompanies(c, F) ==
  IF Call("getContactCompanies", c) \in F THEN <<>> ELSE RemoteContactCompanies(c)

getContactDeals(c, F) ==
  IF Call("getContactDeals", c) \in F THEN <<>> ELSE RemoteContactDeals(c)

getDealContacts(d, F) ==
  IF Call("getDealContacts", d) \in F THEN <<>> ELSE RemoteDealContacts(d)

getDealCompanies(d, F) ==
  IF Call("getDealCompanies", d) \in F THEN <<>> ELSE RemoteDealCompanies(d)

getDealLineItems(d, F, lis) ==
  IF Call("getDealLineItems", d) \in F THEN <<>> ELSE lis[d]

getCompanyById(k) == [name |-> <<"company", k>>, domain |-> Null]
getDealById(d) == [name |-> <<"deal", d>>, stage |-> Null, amount |-> Null]
getLineItemById(l) ==
  [name |-> <<"item", l>>, quantity |-> 1, price |-> Null, productId |-> Null]

-----------------------------------------------------------------------------
(* Repositories *)

\* the four tables, and how many ids each has generated
EmptyDb ==
  [contacts |-> {}, companies |-> {}, deals |-> {}, lineItems |-> {},
   issued |-> [contacts |-> 0, companies |-> 0, deals |-> 0, lineItems |-> 0]]

\* PrimaryGeneratedColumn('uuid'): an id no row of the table ever had
GeneratedId(issued) == issued + 1

\* the same for a table no row is deleted from
NextId(rows) ==
  LET used == {r.id : r \in rows}
  IN CHOOSE n \in 1..(Cardinality(rows) + 1) :
       n \notin used /\ \A m \in 1..(n - 1) : m \in used

\* hubspot_id of a contact is nullable: the row ContactsService.create stores
NoHubspotId == 0

RowIds(rows) == {r.id : r \in rows}

\* unique: true on contacts.email and contacts.hubspot_id (NULLs do not collide)
ContactUnique(rows) ==
  \A r1, r2 \in rows :
    r1.id # r2.id =>
      /\ r1.email # r2.email
      /\ (r1.hubspotId = NoHubspotId \/ r1.hubspotId # r2.hubspotId)

\* the foreign key of @JoinColumn: the parent row is in its table
ForeignKey(parentId, parents) == parentId \in RowIds(parents)

\* unique: true on hubspot_id of companies, deals and line items
HubspotIdUnique(rows) ==
  \A r1, r2 \in rows : r1.id # r2.id => r1.hubspotId # r2.hubspotId

\* repository.save: insert, or update of the row with the same id
SaveRow(rows, row) == {r \in rows : r.id # row.id} \cup {row}

\* findOne({ where: { hubspotId } }): the set holding the row, or {}
findOneByHubspotId(rows, hubspotId) == {r \in rows : r.hubspotId = hubspotId}

\* faulty variant: the row is looked up by hubspotId alone
findOneByHubspotIdOnly(rows, email, hubspotId, byEmail) ==
  {r \in rows : r.hubspotId = hubspotId}

\* findOne({ where: [{ email }, { hubspotId }] }): no ORDER BY, so when the two
\* keys match different rows either may be returned (byEmail picks which)
findOneByEmailOrHubspotId(rows, email, hubspotId, byEmail) ==
  LET matches == {r \in rows : r.email = email \/ r.hubspotId = hubspotId}
      preferred == {r \in matches :
                      IF byEmail THEN r.email = email ELSE r.hubspotId = hubspotId}
  IN IF preferred # {} THEN preferred ELSE matches

\* webhook.service.ts 760-794: mocaService.syncContact is awaited inside a try
\* whose catch only logs; the writes of mocaUserId, syncedAt and syncStatus are
\* commented out, so the store is the same whether the downstream sync fails
syncContactToMoca(d, hubspotId, F) ==
  IF Call("syncContact", hubspotId) \in F THEN d ELSE d

\* the entity handed to save: the found row with its four columns rewritten,
\* or contactRepository.create(contactData)
buildContact(generated, found, contactData) ==
  IF found # {}
  THEN [(CHOOSE r \in found : TRUE) EXCEPT
          !.firstname = contactData.firstname,
          !.lastname = contactData.lastname,
          !.email = contactData.email,
          !.hubspotId = contactData.hubspotId]
  ELSE [id |-> generated,
        firstname |-> contactData.firstname,
        lastname |-> contactData.lastname,
        email |-> contactData.email,
        hubspotId |-> contactData.hubspotId,
        mocaUserId |-> Null, syncStatus |-> FALSE]

\* the second half of upsertContact: the entity is built from the row findOne
\* returned and saved; the save fails on its own or on a unique column
upsertContact(d, found, contactData, F) ==
  LET contact == buildContact(GeneratedId(d.issued.contacts), found, contactData)
      saved == SaveRow(d.contacts, contact)
      failed == Call("saveContact", contactData.hubspotId) \in F
                \/ ~ContactUnique(saved)
  IN IF failed
     THEN [db |-> d, ok |-> FALSE, id |-> 0]
     ELSE [db |-> [d EXCEPT !.contacts = saved,
                            !.issued.contacts = IF found = {} THEN @ + 1 ELSE @],
           ok |-> TRUE, id |-> contact.id]

\* faulty variant: the row found is deleted and a new row is inserted
replaceCompany(d, found, companyData, F) ==
  LET company == [id |-> GeneratedId(d.issued.companies),
                  hubspotId |-> companyData.hubspotId,
                  name |-> companyData.name,
                  domain |-> companyData.domain,
                  contactId |-> companyData.contactId]
      saved == (d.companies \ found) \cup {company}
      failed == Call("saveCompany", companyData.hubspotId) \in F
                \/ ~HubspotIdUnique(saved)
                \/ ~ForeignKey(company.contactId, d.contacts)
  IN IF failed
     THEN [db |-> d, ok |-> FALSE, id |-> 0]
     ELSE [db |-> [d EXCEPT !.companies = saved, !.issued.companies = @ + 1],
           ok |-> TRUE, id |-> company.id]

upsertCompany(d, found, companyData, F) ==
  LET company ==
        IF found # {}
        THEN [(CHOOSE r \in found : TRUE) EXCEPT
                !.name = companyData.name,
                !.domain = companyData.domain,
                !.contactId = companyData.contactId]
        ELSE [id |-> GeneratedId(d.issued.companies),
              hubspotId |-> companyData.hubspotId,
              name |-> companyData.name,
              domain |-> companyData.domain,
              contactId |-> companyData.contactId]
      saved == SaveRow(d.companies, company)
      failed == Call("saveCompany", companyData.hubspotId) \in F
                \/ ~HubspotIdUnique(saved)
                \/ ~ForeignKey(company.contactId, d.contacts)
  IN IF failed
     THEN [db |-> d, ok |-> FALSE, id |-> 0]
     ELSE [db |-> [d EXCEPT !.companies = saved,
                            !.issued.companies = IF found = {} THEN @ + 1 ELSE @],
           ok |-> TRUE, id |-> company.id]

\* faulty variant: an update keeps the stored hasLineItems
upsertDealKeepingFlag(d, found, dealData, F) ==
  LET deal ==
        IF found # {}
        THEN [(CHOOSE r \in found : TRUE) EXCEPT
                !.name = dealData.name,
                !.stage = dealData.stage,
                !.amount = dealData.amount,
                !.contactId = dealData.contactId]
        ELSE [id |-> GeneratedId(d.issued.deals),
              hubspotId |-> dealData.hubspotId,
              name |-> dealData.name,
              stage |-> dealData.stage,
              amount |-> dealData.amount,
              hasLineItems |-> dealData.hasLineItems,
              contactId |-> dealData.contactId]
      saved == SaveRow(d.deals, deal)
  IN IF Call("saveDeal", dealData.hubspotId) \in F \/ ~HubspotIdUnique(saved)
          \/ ~ForeignKey(deal.contactId, d.contacts)
     THEN [db |-> d, ok |-> FALSE, id |-> 0]
     ELSE [db |-> [d EXCEPT !.deals = saved,
                            !.issued.deals = IF found = {} THEN @ + 1 ELSE @],
           ok |-> TRUE, id |-> deal.id]

upsertDeal(d, found, dealData, F) ==
  LET deal ==
        IF found # {}
        THEN [(CHOOSE r \in found : TRUE) EXCEPT
                !.name = dealData.name,
                !.stage = dealData.stage,
                !.amount = dealData.amount,
                !.hasLineItems = dealData.hasLineItems,
                !.contactId = dealData.contactId]
        ELSE [id |-> GeneratedId(d.issued.deals),
              hubspotId |-> dealData.hubspotId,
              name |-> dealData.name,
              stage |-> dealData.stage,
              amount |-> dealData.amount,
              hasLineItems |-> dealData.hasLineItems,
              contactId |-> dealData.contactId]
      saved == SaveRow(d.deals, deal)
      failed == Call("saveDeal", dealData.hubspotId) \in F
                \/ ~HubspotIdUnique(saved)
                \/ ~ForeignKey(deal.contactId, d.contacts)
  IN IF failed
     THEN [db |-> d, ok |-> FALSE, id |-> 0]
     ELSE [db |-> [d EXCEPT !.deals = saved,
                            !.issued.deals = IF found = {} THEN @ + 1 ELSE @],
           ok |-> TRUE, id |-> deal.id]

\* faulty variant: insert without looking the row up; the unique column
\* rejects the insert when the hubspotId has a row
insertLineItem(d, found, lineItemData, F) ==
  LET lineItem == [id |-> GeneratedId(d.issued.lineItems),
                   hubspotId |-> lineItemData.hubspotId,
                   name |-> lineItemData.name,
                   quantity |-> lineItemData.quantity,
                   price |-> lineItemData.price,
                   productId |-> lineItemData.productId,
                   dealId |-> lineItemData.dealId]
      saved == d.lineItems \cup {lineItem}
      failed == Call("saveLineItem", lineItemData.hubspotId) \in F
                \/ ~HubspotIdUnique(saved)
                \/ ~ForeignKey(lineItem.dealId, d.deals)
  IN IF failed
     THEN [db |-> d, ok |-> FALSE, id |-> 0]
     ELSE [db |-> [d EXCEPT !.lineItems = saved, !.issued.lineItems = @ + 1],
           ok |-> TRUE, id |-> lineItem.id]

upsertLineItem(d, found, lineItemData, F) ==
  LET lineItem ==
        IF found # {}
        THEN [(CHOOSE r \in found : TRUE) EXCEPT
                !.name = lineItemData.name,
                !.quantity = lineItemData.quantity,
                !.price = lineItemData.price,
                !.productId = lineItemData.productId,
                !.dealId = lineItemData.dealId]
        ELSE [id |-> GeneratedId(d.issued.lineItems),
              hubspotId |-> lineItemData.hubspotId,
              name |-> lineItemData.name,
              quantity |-> lineItemData.quantity,
              price |-> lineItemData.price,
              productId |-> lineItemData.productId,
              dealId |-> lineItemData.dealId]
      saved == SaveRow(d.lineItems, lineItem)
      failed == Call("saveLineItem", lineItemData.hubspotId) \in F
                \/ ~HubspotIdUnique(saved)
                \/ ~ForeignKey(lineItem.dealId, d.deals)
  IN IF failed
     THEN [db |-> d, ok |-> FALSE, id |-> 0]
     ELSE [db |-> [d EXCEPT !.lineItems = saved,
                            !.issued.lineItems = IF found = {} THEN @ + 1 ELSE @],
           ok |-> TRUE, id |-> lineItem.id]

\* dealRepository.update(id, { hasLineItems: true })
updateDealHasLineItems(d, id, hubspotId, F) ==
  IF Call("updateDeal", hubspotId) \in F
  THEN [db |-> d, ok |-> FALSE]
  ELSE [db |-> [d EXCEPT !.deals =
                  {IF r.id = id THEN [r EXCEPT !.hasLineItems = TRUE] ELSE r
                     : r \in d.deals}],
        ok |-> TRUE]

-----------------------------------------------------------------------------
(* WebhookService: one event, one awaited call at a time. The event is the *)
(* local state of processContactEvent / processDealEvent: the calls still   *)
(* ahead of it, in order, and what the calls behind it returned             *)

NoContactData ==
  [firstname |-> <<"firstname", 0>>, lastname |-> <<"lastname", 0>>, email |-> "",
   hubspotId |-> 0]

\* no event is being handled
NoEv ==
  [kind |-> "none", id |-> 0, todo |-> <<>>, data |-> NoContactData, found |-> {},
   contactId |-> 0, dealId |-> 0, lineItemIds |-> <<>>, failed |-> {},
   overlapped |-> FALSE]

\* the loop calls the handler, which runs up to its first await
Begin(kind, id) ==
  [NoEv EXCEPT !.kind = kind, !.id = id,
               !.todo = IF kind = "contact" THEN <<Call("getContactById", id)>>
                        ELSE <<Call("getDealById", id)>>]

\* what one call leaves: the event, the store, and whether the handler is
\* still awaiting, has returned or has thrown
Threw(e, d) == [ev |-> e, db |-> d, end |-> "threw"]
Done(e, d) == [ev |-> e, db |-> d, end |-> "done"]
Awaits(e, d) == IF e.todo = <<>> THEN Done(e, d) ELSE [ev |-> e, db |-> d, end |-> "none"]

CompanyOps == {"getCompanyById", "findCompany", "saveCompany"}
LineItemOps == {"getLineItemById", "findLineItem", "saveLineItem"}
DealOps == {"getDealById", "getDealLineItems", "findDeal", "saveDeal"}

\* the calls of a for-loop over ids: for each id, the calls of its body
RECURSIVE LoopCalls(_, _)
LoopCalls(names, ids) ==
  IF ids = <<>> THEN <<>>
  ELSE [i \in 1..Len(names) |-> Call(names[i], Head(ids))] \o LoopCalls(names, Tail(ids))

\* the calls of syncDealLineItems(dealId, deal.id, lineItemIds)
RECURSIVE LineItemCalls(_, _)
LineItemCalls(ids, dealId) ==
  IF ids = <<>> THEN <<>>
  ELSE <<CallIn("getLineItemById", Head(ids), dealId),
         CallIn("findLineItem", Head(ids), dealId),
         CallIn("saveLineItem", Head(ids), dealId)>> \o LineItemCalls(Tail(ids), dealId)

\* a throw inside the body for `id` leaves the rest of that body out
RECURSIVE SkipItem(_, _, _)
SkipItem(todo, ops, id) ==
  IF todo # <<>> /\ Head(todo)[1] \in ops /\ Head(todo)[2] = id
  THEN SkipItem(Tail(todo), ops, id)
  ELSE todo

\* the bodies of a loop that are still ahead
RECURSIVE SkipAll(_, _)
SkipAll(todo, ops) ==
  IF todo # <<>> /\ Head(todo)[1] \in ops THEN SkipAll(Tail(todo), ops) ELSE todo

\* upsertContact: findOne, then save, then (webhook.service.ts) the awaited
\* syncContactToMoca; a throw of save becomes an HttpException
upsertContactCalls(e, d, call, F, byEmail) ==
  IF call[1] = "findContact"
  THEN Awaits([e EXCEPT !.found = findOneByEmailOrHubspotId(
                                    d.contacts, e.data.email, e.data.hubspotId, byEmail)],
              d)
  ELSE IF call[1] = "saveContact"
  THEN LET r == upsertContact(d, e.found, e.data, F)
       IN IF r.ok THEN Awaits([e EXCEPT !.found = {}, !.contactId = r.id], r.db)
          ELSE Threw(e, d)
  ELSE Awaits(e, syncContactToMoca(d, call[2], F))

\* faulty variant: the first failing line item ends the loop
dropRemainingLineItems(rest) == SkipAll(rest, LineItemOps)

\* catch block of the per-line-item try: "Continue with other line items"
afterLineItemFailure(rest) == rest

\* syncDealLineItems: per line item getLineItemById and upsertLineItem (findOne,
\* save) inside one try
syncDealLineItems(e, d, call, F) ==
  LET l == call[2]
  IN IF call[1] = "getLineItemById"
     THEN IF call \in F
          THEN Awaits([e EXCEPT !.todo = afterLineItemFailure(SkipItem(@, LineItemOps, l))], d)
          ELSE Awaits(e, d)
     ELSE IF call[1] = "findLineItem"
     THEN Awaits([e EXCEPT !.found = findOneByHubspotId(d.lineItems, l)], d)
     ELSE LET lineItemData == getLineItemById(l)
              r == upsertLineItem(d, e.found, [hubspotId |-> l,
                                               name |-> lineItemData.name,
                                               quantity |-> lineItemData.quantity,
                                               price |-> lineItemData.price,
                                               productId |-> lineItemData.productId,
                                               dealId |-> e.dealId], F)
          IN IF r.ok THEN Awaits([e EXCEPT !.found = {}], r.db)
             ELSE Awaits([e EXCEPT !.found = {}, !.todo = afterLineItemFailure(@)], d)

\* faulty variant: the first failing company ends the loop
dropRemainingCompanies(rest) == SkipAll(rest, CompanyOps)

\* catch block of the per-company try: "Continue with other companies"
afterCompanyFailure(rest) == rest

\* the company loop of syncContactCompanies and of syncDealCompanies: per
\* company getCompanyById and upsertCompany (findOne, save) inside one try
syncCompanyLoop(e, d, call, F) ==
  LET k == call[2]
  IN IF call[1] = "getCompanyById"
     THEN IF call \in F
          THEN Awaits([e EXCEPT !.todo = afterCompanyFailure(SkipItem(@, CompanyOps, k))], d)
          ELSE Awaits(e, d)
     ELSE IF call[1] = "findCompany"
     THEN Awaits([e EXCEPT !.found = findOneByHubspotId(d.companies, k)], d)
     ELSE LET companyData == getCompanyById(k)
              r == upsertCompany(d, e.found, [hubspotId |-> k,
                                              name |-> companyData.name,
                                              domain |-> companyData.domain,
                                              contactId |-> e.contactId], F)
          IN IF r.ok THEN Awaits([e EXCEPT !.found = {}], r.db)
             ELSE Awaits([e EXCEPT !.found = {}, !.todo = afterCompanyFailure(@)], d)

\* faulty variant: a failed read of the companies is rethrown and ends the event
companiesReadRethrown(e, d, call, F) ==
  IF call \in F THEN Threw(e, d)
  ELSE Awaits([e EXCEPT !.todo = LoopCalls(<<"getCompanyById", "findCompany", "saveCompany">>,
                                          RemoteContactCompanies(call[2])) \o @], d)

\* part_016 syncContactCompanies: the association read, then the loop
syncContactCompanies(e, d, call, F) ==
  LET companyIds == getContactCompanies(call[2], F)
  IN Awaits([e EXCEPT !.todo = LoopCalls(<<"getCompanyById", "findCompany", "saveCompany">>,
                                         companyIds) \o @], d)

\* faulty variant: the companies, and the deal after them, are linked to the
\* oldest Contact row, not to the row the contact's upsert returned
companiesOfFirstContact(e, d, companyIds) ==
  [e EXCEPT !.contactId = IF d.contacts = {} THEN @
                          ELSE CHOOSE i \in RowIds(d.contacts) :
                                 \A j \in RowIds(d.contacts) : i <= j,
            !.todo = LoopCalls(<<"getCompanyById", "findCompany", "saveCompany">>,
                               companyIds) \o @]

\* syncDealCompanies(dealId, companyIds, contact.id)
syncDealCompanies(e, d, companyIds) ==
  [e EXCEPT !.todo = LoopCalls(<<"getCompanyById", "findCompany", "saveCompany">>,
                               companyIds) \o @]

\* catch block of the per-deal try: "Continue with other deals"
afterDealFailure(rest) == rest

\* the deal loop of part_016 syncContactDeals: per deal getDealById,
\* getDealLineItems, upsertDeal (findOne, save) and, when the deal has line
\* items, syncDealLineItems, inside one try
syncDealLoop(e, d, call, F, lis) ==
  LET dl == call[2]
  IN IF call[1] = "getDealById"
     THEN IF call \in F
          THEN Awaits([e EXCEPT !.todo = afterDealFailure(SkipItem(@, DealOps, dl))], d)
          ELSE Awaits(e, d)
     ELSE IF call[1] = "getDealLineItems"
     THEN Awaits([e EXCEPT !.lineItemIds = getDealLineItems(dl, F, lis)], d)
     ELSE IF call[1] = "findDeal"
     THEN Awaits([e EXCEPT !.found = findOneByHubspotId(d.deals, dl)], d)
     ELSE LET dealData == getDealById(dl)
              hasLineItems == Len(e.lineItemIds) > 0
              r == upsertDeal(d, e.found, [hubspotId |-> dl,
                                           name |-> dealData.name,
                                           stage |-> dealData.stage,
                                           amount |-> dealData.amount,
                                           hasLineItems |-> hasLineItems,
                                           contactId |-> e.contactId], F)
          IN IF ~r.ok
             THEN Awaits([e EXCEPT !.found = {}, !.todo = afterDealFailure(@)], d)
             ELSE IF hasLineItems
             THEN Awaits([e EXCEPT !.found = {}, !.dealId = r.id,
                                   !.todo = LineItemCalls(e.lineItemIds, dl) \o @], r.db)
             ELSE Awaits([e EXCEPT !.found = {}, !.dealId = r.id], r.db)

\* part_016 syncContactDeals: the association read, then the loop
syncContactDeals(e, d, call, F) ==
  LET dealIds == getContactDeals(call[2], F)
  IN Awaits([e EXCEPT !.todo = LoopCalls(<<"getDealById", "getDealLineItems", "findDeal",
                                           "saveDeal">>, dealIds) \o @], d)

\* part_016: fetch, validate, then upsert, companies, deals
processContactEvent(e, d, call, F, emails) ==
  IF call \in F THEN Threw(e, d)
  ELSE LET hubspotContact == getContactById(e.id, emails[e.id])
       IN IF ~validateContactData(hubspotContact) THEN Threw(e, d)
          ELSE Awaits([e EXCEPT !.data = [firstname |-> hubspotContact.firstname,
                                          lastname |-> hubspotContact.lastname,
                                          email |-> hubspotContact.email,
                                          hubspotId |-> e.id],
                                !.todo = <<Call("findContact", e.id),
                                           Call("saveContact", e.id),
                                           Call("getContactCompanies", e.id),
                                           Call("getContactDeals", e.id)>>], d)

\* webhook.service.ts 410-415: `if (!hubspotContact.ct_moca_id_database)` throws;
\* a property the fetched object does not have reads as undefined
hasMocaIdDatabase(hubspotContact) ==
  /\ "ct_moca_id_database" \in DOMAIN hubspotContact
  /\ hubspotContact.ct_moca_id_database # Null

\* webhook.service.ts 67-93, the first revision: fetch, validate, upsertContact
processContactEventOnly(e, d, call, F, emails) ==
  IF call \in F THEN Threw(e, d)
  ELSE LET hubspotContact == getContactById(e.id, emails[e.id])
       IN IF ~validateContactData(hubspotContact) THEN Threw(e, d)
          ELSE Awaits([e EXCEPT !.data = [firstname |-> hubspotContact.firstname,
                                          lastname |-> hubspotContact.lastname,
                                          email |-> hubspotContact.email,
                                          hubspotId |-> e.id],
                                !.todo = <<Call("findContact", e.id),
                                           Call("saveContact", e.id)>>], d)

\* this.mocaHealh() is not awaited: the promise it returns is truthy
isAPiMocaUp == TRUE

\* webhook.service.ts: fetch, validate, then upsertContact when the downstream
\* API is down; otherwise syncContactToMoca is started and not awaited
processContactEventMoca(e, d, call, F, emails) ==
  IF call \in F THEN Threw(e, d)
  ELSE LET hubspotContact == getContactById(e.id, emails[e.id])
       IN IF ~validateContactData(hubspotContact) THEN Threw(e, d)
          ELSE IF ~hasMocaIdDatabase(hubspotContact) THEN Threw(e, d)
          ELSE IF ~isAPiMocaUp
          THEN Awaits([e EXCEPT !.data = [firstname |-> hubspotContact.firstname,
                                          lastname |-> hubspotContact.lastname,
                                          email |-> hubspotContact.email,
                                          hubspotId |-> e.id],
                                !.todo = <<Call("findContact", e.id),
                                           Call("saveContact", e.id),
                                           Call("syncContact", e.id)>>], d)
          ELSE Done(e, syncContactToMoca(d, e.id, F))

\* faulty variant: the deal is stored, linked to some Contact row, before its
\* contacts are looked at
saveDealWithoutContact(e, d, dealData) ==
  Done(e, upsertDeal(d, findOneByHubspotId(d.deals, e.id),
                     [hubspotId |-> e.id,
                      name |-> dealData.name,
                      stage |-> dealData.stage,
                      amount |-> dealData.amount,
                      hasLineItems |-> FALSE,
                      contactId |-> IF d.contacts = {} THEN 0
                                    ELSE CHOOSE i \in RowIds(d.contacts) : TRUE], {}).db)

\* contactIds.length === 0: log a warning and return
skipDealWithoutContacts(e, d, dealData) == Done(e, d)

\* webhook.service.ts processDealEvent: the deal and its contacts are fetched,
\* the primary contact is looked up and, when it has no row, fetched and
\* upserted; then the companies, the deal, the line items and the flag
processDealEvent(e, d, call, F, emails, lis) ==
  LET op == call[1]
  IN IF op = "getDealById"
     THEN IF call \in F THEN Threw(e, d)
          ELSE Awaits([e EXCEPT !.todo = <<Call("getDealContacts", e.id)>>], d)
     ELSE IF op = "getDealContacts"
     THEN LET contactIds == getDealContacts(e.id, F)
          IN IF Len(contactIds) = 0 THEN skipDealWithoutContacts(e, d, getDealById(e.id))
             ELSE Awaits([e EXCEPT !.todo = <<Call("findContactByHubspotId", contactIds[1])>>], d)
     ELSE IF op = "findContactByHubspotId"
     THEN LET existing == findOneByHubspotId(d.contacts, call[2])
          IN IF existing # {}
             THEN Awaits([e EXCEPT !.contactId = (CHOOSE r \in existing : TRUE).id,
                                   !.todo = <<Call("getDealCompanies", e.id)>>], d)
             ELSE Awaits([e EXCEPT !.todo = <<Call("getContactById", call[2]),
                                              Call("findContact", call[2]),
                                              Call("saveContact", call[2]),
                                              Call("syncContact", call[2]),
                                              Call("getDealCompanies", e.id)>>], d)
     ELSE IF op = "getContactById"
     THEN IF call \in F THEN Threw(e, d)
          ELSE LET hubspotContact == getContactById(call[2], emails[call[2]])
               IN Awaits([e EXCEPT !.data = [firstname |-> hubspotContact.firstname,
                                             lastname |-> hubspotContact.lastname,
                                             email |-> hubspotContact.email,
                                             hubspotId |-> call[2]]], d)
     ELSE IF op = "getDealCompanies"
     THEN LET companyIds == getDealCompanies(e.id, F)
              e1 == [e EXCEPT !.todo = <<Call("findDeal", e.id), Call("saveDeal", e.id),
                                         Call("getDealLineItems", e.id)>>]
          IN IF Len(companyIds) > 0
             THEN Awaits(syncDealCompanies(e1, d, companyIds), d)
             ELSE Awaits(e1, d)
     ELSE IF op = "findDeal"
     THEN Awaits([e EXCEPT !.found = findOneByHubspotId(d.deals, e.id)], d)
     ELSE IF op = "saveDeal"
     THEN LET dealData == getDealById(e.id)
              deal == upsertDeal(d, e.found, [hubspotId |-> e.id,
                                              name |-> dealData.name,
                                              stage |-> dealData.stage,
                                              amount |-> dealData.amount,
                                              hasLineItems |-> FALSE,
                                              contactId |-> e.contactId], F)
          IN IF ~deal.ok THEN Threw(e, d)
             ELSE Awaits([e EXCEPT !.found = {}, !.dealId = deal.id], deal.db)
     ELSE IF op = "getDealLineItems"
     THEN LET lineItemIds == getDealLineItems(e.id, F, lis)
          IN IF Len(lineItemIds) > 0
             THEN Awaits([e EXCEPT !.lineItemIds = lineItemIds,
                                   !.todo = LineItemCalls(lineItemIds, e.id)
                                            \o <<Call("updateDeal", e.id)>>], d)
             ELSE Done(e, d)
     ELSE LET u == updateDealHasLineItems(d, e.dealId, e.id, F)
          IN IF u.ok THEN Done(e, u.db) ELSE Threw(e, d)

\* the handler resumes after the call it awaited: the call at the head of
\* todo is made against the store as it is now; `fail` says whether this
\* call fails, whatever an earlier call of the same name and id did
Step(e, d, rev, fail, byEmail, emails, lis) ==
  LET made == Head(e.todo)
      call == Call(made[1], made[2])
      op == call[1]
      F == IF fail THEN {call} ELSE {}
      e1 == [e EXCEPT !.todo = Tail(@),
                      !.failed = IF fail THEN @ \cup {made} ELSE @]
  IN IF op \in {"findContact", "saveContact", "syncContact"}
     THEN upsertContactCalls(e1, d, call, F, byEmail)
     ELSE IF op \in LineItemOps THEN syncDealLineItems(e1, d, call, F)
     ELSE IF op \in CompanyOps THEN syncCompanyLoop(e1, d, call, F)
     ELSE IF op = "getContactCompanies" THEN syncContactCompanies(e1, d, call, F)
     ELSE IF op = "getContactDeals" THEN syncContactDeals(e1, d, call, F)
     ELSE IF e.kind = "deal" THEN processDealEvent(e1, d, call, F, emails, lis)
     ELSE IF op \in DealOps THEN syncDealLoop(e1, d, call, F, lis)
     ELSE IF rev = "part_016" THEN processContactEvent(e1, d, call, F, emails)
     ELSE IF rev = "webhook.service:1-147" THEN processContactEventOnly(e1, d, call, F, emails)
     ELSE processContactEventMoca(e1, d, call, F, emails)

\* the handler run from where it is to its end with no other request in
\* between: the calls named in F fail. `ev` holds the locals it ended with
RECURSIVE Finish(_, _, _, _, _, _, _)
Finish(e, d, rev, F, byEmail, emails, lis) ==
  LET s == Step(e, d, rev, Head(e.todo) \in F, byEmail, emails, lis)
  IN IF s.end = "none" THEN Finish(s.ev, s.db, rev, F, byEmail, emails, lis)
     ELSE [db |-> s.db, threw |-> s.end = "threw", ev |-> s.ev]

-----------------------------------------------------------------------------
(* HubSpotSignatureGuard. Strings are sequences of character codes.        *)

Whitespace == {9, 32}
Digits == {49, 50}
Secret == <<115>>
Alphabet == <<9, 32, 49, 50, 115>>

RECURSIVE SeqsUpTo(_, _)
SeqsUpTo(S, n) ==
  IF n = 0 THEN {<<>>}
  ELSE LET shorter == SeqsUpTo(S, n - 1)
       IN shorter \cup {Append(q, x) : q \in shorter, x \in S}

RECURSIVE TrimLeft(_)
TrimLeft(q) == IF q # <<>> /\ Head(q) \in Whitespace THEN TrimLeft(Tail(q)) ELSE q

RECURSIVE TrimRight(_)
TrimRight(q) ==
  IF q # <<>> /\ q[Len(q)] \in Whitespace THEN TrimRight(SubSeq(q, 1, Len(q) - 1)) ELSE q

\* a JSON text of the model: a number, with optional whitespace around it
IsJson(raw) ==
  LET t == TrimRight(TrimLeft(raw))
  IN t # <<>> /\ \A i \in 1..Len(t) : t[i] \in Digits

\* the body parser hands the guard the parsed value, which the guard
\* serialises again: JSON.stringify(JSON.parse(raw))
JsonParse(raw) == TrimRight(TrimLeft(raw))
JsonStringify(value) == value

RawBodies == {q \in SeqsUpTo(Digits \cup Whitespace, MaxBodyLen) : IsJson(q)}

\* createHash('sha256').update(s).digest('hex'): a collision-free digest of
\* DigestLen hexadecimal characters. The digests of the strings of the model
\* are written with the digits 0-7, so that a string holding one of 8-f is the
\* digest of none of them, as an altered SHA-256 digest is the digest of no
\* string at hand.
CharIndex(c) == CHOOSE i \in 1..Len(Alphabet) : Alphabet[i] = c

RECURSIVE StringNumber(_)
StringNumber(q) ==
  IF q = <<>> THEN 0 ELSE CharIndex(Head(q)) + (Len(Alphabet) + 1) * StringNumber(Tail(q))

HexCode(v) == IF v < 10 THEN 48 + v ELSE 87 + v

RECURSIVE HexOf(_, _)
HexOf(n, len) ==
  IF len = 0 THEN <<>> ELSE <<HexCode(n % 8)>> \o HexOf(n \div 8, len - 1)

sha256Hex(q) == HexOf(StringNumber(q), DigestLen)

computeSignature(secret, payload) == sha256Hex(secret \o payload)

RECURSIVE BitXor(_, _)
BitXor(x, y) ==
  IF x = 0 /\ y = 0 THEN 0
  ELSE (((x % 2) + (y % 2)) % 2) + 2 * BitXor(x \div 2, y \div 2)

RECURSIVE BitOr(_, _)
BitOr(x, y) ==
  IF x = 0 /\ y = 0 THEN 0
  ELSE (IF x % 2 = 1 \/ y % 2 = 1 THEN 1 ELSE 0) + 2 * BitOr(x \div 2, y \div 2)

RECURSIVE xorFold(_, _, _, _)
xorFold(a, b, i, result) ==
  IF i > Len(a) THEN result
  ELSE xorFold(a, b, i + 1, BitOr(result, BitXor(a[i], b[i])))

\* faulty variant: only the lengths are compared
compareLengths(a, b) == Len(a) = Len(b)

secureCompare(a, b) ==
  IF Len(a) # Len(b) THEN FALSE ELSE xorFold(a, b, 1, 0) = 0

\* request.headers['x-hubspot-signature']
NoHeader == [present |-> FALSE, value |-> <<>>]
Header(value) == [present |-> TRUE, value |-> value]

\* canActivate: TRUE when the request passes, FALSE for UnauthorizedException
\* configService.get(key, defaultValue): the default when the key is not set
configGet(value, defaultValue) == IF value = Null THEN defaultValue ELSE value

canActivate(mode, secret, signature, body) ==
  LET requestBody == JsonStringify(body)
  IN IF mode # "production" THEN TRUE
     ELSE IF secret = <<>> THEN TRUE
     ELSE IF ~signature.present \/ signature.value = <<>> THEN FALSE
     ELSE secureCompare(signature.value, computeSignature(secret, requestBody))

\* single-character mutations of a string
Mutations(q, alphabet) ==
  {[q EXCEPT ![i] = c] : i \in 1..Len(q), c \in alphabet} \ {q}

\* a signature that differs from q in its first character
WrongSignature(q) == [q EXCEPT ![1] = 102]

UnusedHexCodes == {HexCode(v) : v \in 8..15}

-----------------------------------------------------------------------------
(* Retry: the decorator of database-errors.ts and the loop of getContactById *)

maxAttempts == 3
initialDelay == 1000
maxDelay == 30000
backoffMultiplier == 2
retryableStatusCodes == {429, 500, 502, 503, 504}
retryAttempts == 3
retryDelay == 1000

\* status 0 stands for an error without a response (a transport-level failure)
Statuses == {0, 400, 404, 429, 500, 501, 503}
NoRetryAfter == <<>>
RetryAfterHeaders == {<<0>>, <<1>>, <<5>>}

Ok == [ok |-> TRUE, status |-> 200, apiError |-> FALSE, retryable |-> FALSE,
       has404 |-> FALSE, retryAfter |-> NoRetryAfter]

\* what the wrapped method of the decorator may throw: a HubSpotApiError or any
\* other error; the response of a 429 may carry Retry-After
DecoratorErrors ==
  {e \in [ok : {FALSE}, status : Statuses, apiError : BOOLEAN, retryable : BOOLEAN,
          has404 : BOOLEAN, retryAfter : {NoRetryAfter} \cup RetryAfterHeaders] :
     /\ e.has404 = (e.status = 404)
     /\ e.status # 429 => e.retryAfter = NoRetryAfter}

\* what hubspotClient.crm.contacts.basicApi.getById may throw: the message of a
\* 404 holds '404', the message of any other error may (it carries the response
\* body and headers); a 429 may carry Retry-After
ClientErrors ==
  {[ok |-> FALSE, status |-> st, apiError |-> FALSE, retryable |-> FALSE,
    has404 |-> m, retryAfter |-> ra] :
     st \in Statuses, m \in BOOLEAN,
     ra \in {NoRetryAfter} \cup RetryAfterHeaders} \ 
  {e \in [ok : {FALSE}, status : Statuses, apiError : {FALSE}, retryable : {FALSE},
          has404 : BOOLEAN, retryAfter : {NoRetryAfter} \cup RetryAfterHeaders] :
     \/ (e.status = 404 /\ ~e.has404)
     \/ (e.status # 429 /\ e.retryAfter # NoRetryAfter)}

Min(a, b) == IF a < b THEN a ELSE b

RECURSIVE Pow(_, _)
Pow(b, e) == IF e = 0 THEN 1 ELSE b * Pow(b, e - 1)

Transient(resp) == resp.ok \/ resp.status = 429 \/ resp.status >= 500

\* HubSpotApiError passes 502 or 400 to HttpException; any other error keeps its own
httpStatus(error) ==
  IF error.apiError THEN (IF error.status >= 500 THEN 502 ELSE 400) ELSE error.status

\* `throw error` of the decorator: the error of the last invocation, as it was
rethrown(error) == [status |-> httpStatus(error), lastError |-> error, attempts |-> 0]

\* the HttpException after the loop of getContactById: a fixed message and 503,
\* neither the last error nor the number of attempts
serviceUnavailable == [status |-> 503, lastError |-> <<>>, attempts |-> 0]

(* MocaService: responses of the downstream API and the state of one sync  *)
mocaRetryAttempts == 3
mocaRetryDelay == 1000

MocaIds == {"moca_1", "moca_2"}

\* a response of fetch: status 0 stands for fetch itself rejecting (no response)
MocaSuccesses ==
  {[status |-> st, mocaUserId |-> Null, id |-> i] : st \in {200, 201}, i \in MocaIds}
MocaConflicts ==
  {[status |-> 409, mocaUserId |-> m, id |-> i] :
     m \in MocaIds \cup {Null}, i \in MocaIds \cup {Null}}
MocaFailures ==
  {[status |-> st, mocaUserId |-> Null, id |-> Null] : st \in {0, 400, 404, 500}}
MocaResponses == MocaSuccesses \cup MocaConflicts \cup MocaFailures

responseOk(resp) == resp.status >= 200 /\ resp.status <= 299

\* data.mocaUserId || data.id of a 409 body
conflictIgnored(resp) == Null
conflictId(resp) == IF resp.mocaUserId # Null THEN resp.mocaUserId ELSE resp.id

\* what one pass through the try block of makeRequest yields
requestOutcome(resp) ==
  IF resp.status = 409 /\ conflictId(resp) # Null
  THEN [ok |-> TRUE, id |-> conflictId(resp)]
  ELSE IF ~responseOk(resp) THEN [ok |-> FALSE, id |-> Null]
  ELSE [ok |-> TRUE, id |-> resp.id]

ping == TRUE

\* the catch around the first makeRequest of syncContact
neverFallback(isUpdate, status) == FALSE
fallbackApplies(isUpdate, status) == isUpdate /\ status = 404

\* the sync columns of a Contact row that was never synced
Unsynced(mocaUserId) ==
  [mocaUserId |-> mocaUserId, syncStatus |-> FALSE, syncedAt |-> Null]

\* `contact` holds the sync columns of the row handed to syncContact, `round`
\* counts the syncs of that contact, `created` tells that a sync of it ended
\* with a successful create, `logged` that syncContactToMoca has returned
StartSync(mocaUserId) ==
  [st |-> IF ping THEN "requesting" ELSE "thrown",
   isUpdate |-> mocaUserId # Null,
   method |-> IF mocaUserId # Null THEN "PUT" ELSE "POST",
   attemptsLeft |-> mocaRetryAttempts,
   fallbacks |-> 0, delays |-> 0, log |-> <<>>,
   result |-> Null, error |-> IF ping THEN 0 ELSE 503,
   contact |-> Unsynced(mocaUserId), round |-> 1, created |-> FALSE,
   logged |-> FALSE]

IdleMoca ==
  [st |-> "idle", isUpdate |-> FALSE, method |-> "POST",
   attemptsLeft |-> 0, fallbacks |-> 0, delays |-> 0, log |-> <<>>,
   result |-> Null, error |-> 0,
   contact |-> Unsynced(Null), round |-> 0, created |-> FALSE,
   logged |-> FALSE]

\* syncContactToMoca after the awaited syncContact: both contactRepository.update
\* calls are commented out, the row is left as it was
recordSyncOutcome(contact, succeeded, mocaUserId) == contact

IdleSeq ==
  [path |-> "none", batch |-> <<>>, i |-> 1, step |-> "idle", running |-> {},
   started |-> <<>>, threw |-> <<>>]

IdleRace == [initial |-> {}, rows |-> {}, req |-> <<>>]

\* the methods of HubSpotService that call the HubSpot API
SingleFetches == {"getCompanyById", "getDealById", "getLineItemById"}
AssociationReads == {"getContactCompanies", "getContactDeals", "getDealContacts",
                     "getDealCompanies", "getDealLineItems"}
NetworkCalls == {"getContactById"} \cup SingleFetches \cup AssociationReads

StartRetry(mode) ==
  [mode |-> mode, attempt |-> 1, delay |-> initialDelay, invocations |-> 0,
   sleeps |-> <<>>, st |-> "calling", transient |-> TRUE, last |-> Ok]

IdleRetry ==
  [mode |-> "none", attempt |-> 0, delay |-> 0, invocations |-> 0,
   sleeps |-> <<>>, st |-> "idle", transient |-> TRUE, last |-> Ok]

-----------------------------------------------------------------------------
(* WebhookController.handleHubSpotWebhook and the WebhookService loops     *)

ObjectIds == 1..2
Events ==
  [subscriptionType : {"contact.propertyChange", "deal.creation"}, objectId : ObjectIds]
    \cup {[subscriptionType |-> "company.creation", objectId |-> 1]}
Batches == {q \in SeqsUpTo(Events, MaxBatch) : TRUE}

\* the switch on payload[0]?.subscriptionType
Route(payload) ==
  IF payload = <<>> THEN "ignored"
  ELSE IF payload[1].subscriptionType \in
            {"contact.creation", "contact.propertyChange", "contact.deletion"}
  THEN "contact"
  ELSE IF payload[1].subscriptionType \in {"deal.creation", "deal.propertyChange"}
  THEN "deal"
  ELSE "ignored"

\* faulty variant: the first failing event ends the loop
abortBatch(i, n) == n + 1

\* catch block of the per-event try: "Continue processing other events even if one fails"
afterEventFailure(i, n) == i + 1

\* faulty variant: processed++ placed in a finally block
countEveryEvent(count, threw) == count + 1

\* processed++ is the statement after the awaited per-event call, inside the try
countProcessed(count, threw) == IF threw THEN count ELSE count + 1

NoResponse == [code |-> 0, status |-> "none", processed |-> 0]

NoEvent == [kind |-> "none", objectId |-> 0, clean |-> FALSE, threw |-> FALSE]

\* no other request has written; `other` is the answer to the request that
\* was handled while this one was inside an event
NoCrud == [op |-> "none", row |-> {}, items |-> {}]

NoWrites == [writes |-> 0, other |-> NoResponse, peer |-> NoEv, crud |-> NoCrud]

RECURSIVE Range(_)
Range(q) == IF q = <<>> THEN {} ELSE {Head(q)} \cup Range(Tail(q))

\* the calls one event can reach
ContactKeys(c) ==
  {Call("getContactById", c), Call("saveContact", c), Call("syncContact", c)}
CompanyKeys(ks) ==
  {Call("getCompanyById", k) : k \in ks} \cup {Call("saveCompany", k) : k \in ks}
LineItemKeys(ls, d) ==
  {CallIn("getLineItemById", l, d) : l \in ls}
    \cup {CallIn("saveLineItem", l, d) : l \in ls}
DealKeys(ds) ==
  {Call("getDealById", d) : d \in ds} \cup {Call("saveDeal", d) : d \in ds}
    \cup {Call("getDealLineItems", d) : d \in ds}

ReachableCalls(kind, id) ==
  IF kind = "contact"
  THEN ContactKeys(id)
         \cup {Call("getContactCompanies", id), Call("getContactDeals", id)}
         \cup CompanyKeys(Range(RemoteContactCompanies(id)))
         \cup DealKeys(Range(RemoteContactDeals(id)))
         \cup UNION {LineItemKeys(Range(rLineItems[d]), d) :
                       d \in Range(RemoteContactDeals(id))}
  ELSE DealKeys({id})
         \cup {Call("getDealContacts", id), Call("getDealCompanies", id),
               Call("updateDeal", id)}
         \cup (IF RemoteDealContacts(id) = <<>> THEN {}
               ELSE ContactKeys(RemoteDealContacts(id)[1]))
         \cup CompanyKeys(Range(RemoteDealCompanies(id)))
         \cup LineItemKeys(Range(rLineItems[id]), id)

RECURSIVE FaultSets(_, _)
FaultSets(keys, n) ==
  IF n = 0 THEN {{}}
  ELSE LET smaller == FaultSets(keys, n - 1)
       IN smaller \cup {s \cup {k} : s \in smaller, k \in keys}

\* findOne may return either row only when the two keys match different rows
Ambiguous(rows, contactId, emails) ==
  /\ contactId \in DOMAIN emails
  /\ \E r1, r2 \in rows :
       r1.id # r2.id /\ r1.email = emails[contactId] /\ r2.hubspotId = contactId

Choices(rows, contactId, emails) ==
  IF Ambiguous(rows, contactId, emails) THEN BOOLEAN ELSE {TRUE}

\* the contact whose row an event of this kind may look up
ContactOf(kind, id) ==
  IF kind = "contact" THEN id
  ELSE IF RemoteDealContacts(id) = <<>> THEN 0 ELSE RemoteDealContacts(id)[1]

\* the per-event call of the loop of the deployed revision
ProcessEvent(d, rev, kind, id, F, byEmail, emails, lis) ==
  Finish(Begin(kind, id), d, rev, F, byEmail, emails, lis)

InitialEmails == [c \in ContactIds |-> IF c = 1 THEN "a@x" ELSE "b@x"]
InitialLineItems == [d \in DealIds |-> IF d = 1 THEN UpTo(NLineItems) ELSE <<>>]

InitGuardFixed ==
  /\ appMode = "production"
  /\ webhookSecret = Secret
  /\ rawBody = <<49>>
  /\ signedBody = <<49>>
  /\ verdict = "none"

\* the revisions of WebhookService the repository holds
Revisions == {"webhook.service:1-147", "part_016", "webhook.service"}

InitPipeline ==
  /\ pc = "idle"
  /\ batch = <<>>
  /\ header = NoHeader
  /\ idx = 1
  /\ processed = 0
  /\ response = NoResponse
  /\ db = EmptyDb
  /\ rEmail = InitialEmails
  /\ rLineItems = InitialLineItems
  /\ changes = 0
  /\ evCount = 0
  /\ attempted = {}
  /\ threwAt = {}
  /\ lastEv = NoEvent
  /\ redelivered = FALSE
  /\ ev = NoEv
  /\ conc = NoWrites

Init ==
  /\ InitGuardFixed
  /\ revision \in Revisions
  /\ InitPipeline
  /\ retry = IdleRetry
  /\ moca = IdleMoca
  /\ seq = IdleSeq
  /\ race = IdleRace

\* a request arrives
Receive ==
  /\ pc \in {"idle", "responded"}
  /\ \E b \in Batches,
        h \in {NoHeader, Header(computeSignature(webhookSecret, rawBody)),
              Header(WrongSignature(computeSignature(webhookSecret, rawBody)))} :
       /\ evCount + Len(b) + conc.writes <= MaxEvents
       /\ revision # "webhook.service" => Route(b) # "deal"
       /\ batch' = b
       /\ header' = h
  /\ pc' = "guard"
  /\ idx' = 1
  /\ processed' = 0
  /\ attempted' = {}
  /\ threwAt' = {}
  /\ verdict' = "none"
  /\ response' = NoResponse
  /\ UNCHANGED <<appMode, webhookSecret, rawBody, signedBody, revision, db,
                 rEmail, rLineItems, changes, evCount, lastEv, redelivered, ev, conc,
                 retry, moca, seq, race>>

\* @UseGuards(HubSpotSignatureGuard)
Guard ==
  /\ pc = "guard"
  /\ IF canActivate(configGet(appMode, "development"), webhookSecret, header,
                    JsonParse(rawBody))
     THEN /\ verdict' = "pass"
          /\ pc' = "handler"
          /\ UNCHANGED response
     ELSE /\ verdict' = "unauthorized"
          /\ pc' = "responded"
          /\ response' = [code |-> 401, status |-> "error", processed |-> 0]
  /\ UNCHANGED <<appMode, webhookSecret, rawBody, signedBody, revision, batch, header,
                 idx, processed, db, rEmail, rLineItems, changes, evCount, attempted,
                 threwAt, lastEv, redelivered, ev, conc, retry, moca, seq, race>>

\* handleHubSpotWebhook: the switch
Dispatch ==
  /\ pc = "handler"
  /\ IF Route(batch) = "contact" THEN pc' = "contactLoop" /\ UNCHANGED response
     ELSE IF Route(batch) = "deal" THEN pc' = "dealLoop" /\ UNCHANGED response
     ELSE /\ pc' = "responded"
          /\ response' = [code |-> 200, status |-> "ignored", processed |-> 0]
  /\ UNCHANGED <<guardVars, revision, batch, header, idx, processed, db, rEmail,
                 rLineItems, changes, evCount, attempted, threwAt, lastEv,
                 redelivered, ev, conc, retry, moca, seq, race>>

\* the loop is about to call the handler for batch[idx]
AtEvent == pc \in {"contactLoop", "dealLoop"} /\ idx <= Len(batch) /\ ev.todo = <<>>

\* the calls that fail on their own: remote calls and repository writes
FallibleOps ==
  {"getContactById", "saveContact", "syncContact", "getContactCompanies", "getContactDeals",
   "getCompanyById", "saveCompany", "getDealById", "getDealLineItems", "saveDeal",
   "getDealContacts", "getDealCompanies", "getLineItemById", "saveLineItem", "updateDeal"}

Faults(e) ==
  IF Head(e.todo)[1] \in FallibleOps /\ Cardinality(e.failed) < MaxFaults
  THEN BOOLEAN ELSE {FALSE}

\* the row findOne returns is open only at the lookup of upsertContact
StepChoices(e, rows) ==
  IF Head(e.todo)[1] = "findContact"
  THEN Choices(rows, e.data.hubspotId, [c \in {e.data.hubspotId} |-> e.data.email])
  ELSE {TRUE}

\* one awaited call of the handler returns. The handler either awaits its
\* next call or ends: then `processed++` or the catch block, and the loop
\* goes on to the next event
HandleEvent(kind, s) ==
  /\ db' = s.db
  /\ attempted' = attempted \cup {idx}
  /\ IF s.end = "none"
     THEN /\ ev' = s.ev
          /\ UNCHANGED <<lastEv, redelivered, threwAt, processed, idx, evCount>>
     ELSE /\ ev' = NoEv
          /\ lastEv' = [kind |-> kind, objectId |-> batch[idx].objectId,
                        clean |-> s.ev.failed = {} /\ ~s.ev.overlapped,
                        threw |-> s.end = "threw"]
          /\ redelivered' = (/\ lastEv.kind = kind
                             /\ lastEv.objectId = batch[idx].objectId
                             /\ lastEv.clean
                             /\ s.ev.failed = {}
                             /\ ~s.ev.overlapped)
          /\ threwAt' = IF s.end = "threw" THEN threwAt \cup {idx} ELSE threwAt
          /\ processed' = countProcessed(processed, s.end = "threw")
          /\ idx' = IF s.end = "threw" THEN afterEventFailure(idx, Len(batch)) ELSE idx + 1
          /\ evCount' = evCount + 1
  /\ UNCHANGED <<guardVars, revision, pc, batch, header, response, rEmail,
                 rLineItems, changes, conc, retry, moca, seq, race>>

\* processContactWebhook: the for-loop awaits processContactEvent, which goes
\* on by one awaited call
ContactEvent ==
  /\ pc = "contactLoop"
  /\ idx <= Len(batch)
  /\ LET e == IF ev.todo = <<>> THEN Begin("contact", batch[idx].objectId) ELSE ev
     IN \E fail \in Faults(e), byEmail \in StepChoices(e, db.contacts) :
          HandleEvent("contact", Step(e, db, revision, fail, byEmail, rEmail, rLineItems))

\* processDealCreationWebhook: the for-loop awaits processDealEvent, which goes
\* on by one awaited call
DealEvent ==
  /\ pc = "dealLoop"
  /\ idx <= Len(batch)
  /\ LET e == IF ev.todo = <<>> THEN Begin("deal", batch[idx].objectId) ELSE ev
     IN \E fail \in Faults(e), byEmail \in StepChoices(e, db.contacts) :
          HandleEvent("deal", Step(e, db, revision, fail, byEmail, rEmail, rLineItems))

\* the loop ended: return { status: 'success', processed }
Respond ==
  /\ pc \in {"contactLoop", "dealLoop"}
  /\ idx > Len(batch)
  /\ pc' = "responded"
  /\ response' = [code |-> 200, status |-> "success", processed |-> processed]
  /\ UNCHANGED <<guardVars, revision, batch, header, idx, processed, db, rEmail,
                 rLineItems, changes, evCount, attempted, threwAt, lastEv,
                 redelivered, ev, conc, retry, moca, seq, race>>

\* the guard, the switch and the return run without an await: anything else
\* runs while no request is handled or while the handler awaits a call
AwaitPoint == pc \in {"idle", "responded", "contactLoop", "dealLoop"}

\* the events this request still has to handle
Pending == IF pc \in {"contactLoop", "dealLoop"} THEN Len(batch) - idx + 1 ELSE 0

\* MaxChanges bounds what others start: remote edits, calls of the CRUD
\* services, the seeder and other webhook requests together; MaxEvents bounds
\* the events handled and the calls of others together
MayStart ==
  /\ changes + conc.writes < MaxChanges
  /\ evCount + Pending + conc.writes < MaxEvents

\* the event in progress has had something else run between two of its calls
Overlap(e) == IF e.todo = <<>> THEN e ELSE [e EXCEPT !.overlapped = TRUE]

\* the remote CRM is edited: a contact's email, or a deal's line items. An
\* event reads each of them at most once, so an edit made while an event is
\* in progress is an edit made before it or after it
RemoteChange ==
  /\ changes + conc.writes < MaxChanges
  /\ ev.todo = <<>>
  /\ \/ \E c \in ContactIds, e \in Emails \cup {""} :
          /\ rEmail[c] # e
          /\ rEmail' = [rEmail EXCEPT ![c] = e]
          /\ UNCHANGED rLineItems
     \/ \E d \in DealIds, l \in LineItemLists :
          /\ rLineItems[d] # l
          /\ rLineItems' = [rLineItems EXCEPT ![d] = l]
          /\ UNCHANGED rEmail
  /\ changes' = changes + 1
  /\ lastEv' = NoEvent
  /\ redelivered' = FALSE
  /\ UNCHANGED <<guardVars, revision, pc, batch, header, idx, processed, response,
                 db, evCount, attempted, threwAt, ev, conc, retry, moca, seq, race>>

\* one awaited call of another request of the same process returns and leaves
\* the store d: it runs between two awaits of the event in progress, if any
ConcurrentWrite(d) ==
  /\ AwaitPoint
  /\ db' = d
  /\ ev' = Overlap(ev)
  /\ lastEv' = NoEvent
  /\ redelivered' = FALSE
  /\ UNCHANGED <<guardVars, revision, pc, batch, header, idx, processed, response,
                 rEmail, rLineItems, changes, evCount, attempted, threwAt,
                 retry, moca, seq, race>>

\* handleHubSpotWebhook runs for a second request with one event: its handler
\* goes on by one awaited call, between the calls of this request; when it
\* ends the request is answered with its own count
OverlappingRequest ==
  \E e \in Events :
    LET kind == Route(<<e>>)
        began == conc.peer.todo # <<>>
        p == IF began THEN conc.peer ELSE Begin(kind, e.objectId)
    IN /\ kind # "ignored"
       /\ revision # "webhook.service" => kind # "deal"
       /\ IF began THEN kind = p.kind /\ e.objectId = p.id
          ELSE MayStart
       /\ \E byEmail \in StepChoices(p, db.contacts) :
            LET s == Step(p, db, revision, FALSE, byEmail, rEmail, rLineItems)
            IN /\ ConcurrentWrite(s.db)
               /\ conc' = [conc EXCEPT
                             !.writes = IF began THEN @ ELSE @ + 1,
                             !.peer = IF s.end = "none" THEN s.ev ELSE NoEv,
                             !.other = IF s.end = "none" THEN @
                                       ELSE [code |-> 200, status |-> "success",
                                             processed |->
                                               countProcessed(0, s.end = "threw")]]

\* a call of one of the CRUD services that is one statement and changes the
\* store; a statement the store rejects leaves it as it is
CrudWrite(d) ==
  /\ MayStart
  /\ d # db
  /\ ConcurrentWrite(d)
  /\ conc' = [conc EXCEPT !.writes = @ + 1]

\* a call of one of the CRUD services awaits its first call: `row` holds the
\* entity findOne gave it, with the dto assigned to it, and `items` the rows
\* of a one-to-many relation loaded with it
CrudFind(op, row, items) ==
  /\ MayStart
  /\ conc.crud.op = "none"
  /\ ConcurrentWrite(db)
  /\ conc' = [conc EXCEPT !.writes = @ + 1,
                          !.crud = [op |-> op, row |-> row, items |-> items]]

\* the second awaited call of that service call returns
CrudSave(d) ==
  /\ ConcurrentWrite(d)
  /\ conc' = [conc EXCEPT !.crud = NoCrud]

\* the bodies the CRUD routes are called with
CrudEmails == {"a@x", "z@x"}
CrudHubspotId == 1
CrudQuantity == 2

\* ContactsService.create: repository.create(dto) and save; the dto has no
\* hubspotId, the column stays NULL
ContactsCreate ==
  \E e \in CrudEmails :
    LET dto == [firstname |-> <<"firstname", 0>>, lastname |-> <<"lastname", 0>>,
                email |-> e]
        row == [id |-> GeneratedId(db.issued.contacts),
                firstname |-> dto.firstname,
                lastname |-> dto.lastname,
                email |-> dto.email,
                hubspotId |-> NoHubspotId,
                mocaUserId |-> Null, syncStatus |-> FALSE]
        saved == SaveRow(db.contacts, row)
    IN CrudWrite(IF ContactUnique(saved)
                 THEN [db EXCEPT !.contacts = saved, !.issued.contacts = @ + 1]
                 ELSE db)

\* ContactsService.update: repository.update(id, dto), one UPDATE statement
ContactsUpdate ==
  \E row \in db.contacts, e \in CrudEmails :
    LET saved == SaveRow(db.contacts, [row EXCEPT !.email = e])
    IN CrudWrite(IF ContactUnique(saved) THEN [db EXCEPT !.contacts = saved] ELSE db)

\* DELETE of a contact: its companies and deals and the line items of those
\* deals go with it (ON DELETE CASCADE)
DeleteContact(d, id) ==
  LET gone == {dl \in d.deals : dl.contactId = id}
  IN [d EXCEPT !.contacts = {c \in @ : c.id # id},
               !.companies = {k \in @ : k.contactId # id},
               !.deals = @ \ gone,
               !.lineItems = {l \in @ : l.dealId \notin RowIds(gone)}]

\* DELETE of a deal: its line items go with it (ON DELETE CASCADE)
DeleteDeal(d, id) ==
  [d EXCEPT !.deals = {dl \in @ : dl.id # id},
            !.lineItems = {l \in @ : l.dealId # id}]

\* ContactsService.remove: repository.delete(id), one DELETE statement
ContactsRemove ==
  \E row \in db.contacts : CrudWrite(DeleteContact(db, row.id))

\* CompaniesService.create
CompaniesCreate ==
  \E c \in RowIds(db.contacts) :
    LET dto == [hubspotId |-> CrudHubspotId, name |-> <<"company", 0>>,
                domain |-> Null, contactId |-> c]
        saved == SaveRow(db.companies,
                         [id |-> GeneratedId(db.issued.companies),
                          hubspotId |-> dto.hubspotId,
                          name |-> dto.name,
                          domain |-> dto.domain,
                          contactId |-> dto.contactId])
    IN CrudWrite(IF HubspotIdUnique(saved) /\ ForeignKey(dto.contactId, db.contacts)
                 THEN [db EXCEPT !.companies = saved, !.issued.companies = @ + 1]
                 ELSE db)

\* CompaniesService.update: await findOne, Object.assign(company, dto), await
\* save. The entity read by findOne is written back whole
CompaniesUpdate ==
  \/ \E row \in db.companies :
       CrudFind("CompaniesUpdate", {[row EXCEPT !.name = <<"company", 0>>]}, {})
  \/ /\ conc.crud.op = "CompaniesUpdate"
     /\ LET company == CHOOSE r \in conc.crud.row : TRUE
            saved == SaveRow(db.companies, company)
        IN IF HubspotIdUnique(saved) /\ ForeignKey(company.contactId, db.contacts)
           THEN CrudSave([db EXCEPT !.companies = saved])
           ELSE CrudSave(db)

\* CompaniesService.remove: await findOne, await repository.remove(company)
CompaniesRemove ==
  \/ \E row \in db.companies : CrudFind("CompaniesRemove", {row}, {})
  \/ /\ conc.crud.op = "CompaniesRemove"
     /\ LET company == CHOOSE r \in conc.crud.row : TRUE
        IN CrudSave([db EXCEPT !.companies = {k \in @ : k.id # company.id}])

\* DealsService.create
DealsCreate ==
  \E c \in RowIds(db.contacts) :
    LET dto == [hubspotId |-> CrudHubspotId, name |-> <<"deal", 0>>, contactId |-> c]
        saved == SaveRow(db.deals,
                         [id |-> GeneratedId(db.issued.deals),
                          hubspotId |-> dto.hubspotId,
                          name |-> dto.name,
                          stage |-> Null,
                          amount |-> Null,
                          hasLineItems |-> FALSE,
                          contactId |-> dto.contactId])
    IN CrudWrite(IF HubspotIdUnique(saved) /\ ForeignKey(dto.contactId, db.contacts)
                 THEN [db EXCEPT !.deals = saved, !.issued.deals = @ + 1]
                 ELSE db)

\* save of a deal loaded with relations: ['lineItems'], a relation declared
\* cascade: true. The deal row and every loaded line item are written back as
\* they were read; a line item the deal has by now and the loaded list has
\* not is detached (deal_id = NULL), which the column, not nullable, rejects.
\* One transaction: a rejected statement leaves the store as it was
saveDealWithLineItems(d, deal, lineItems) ==
  LET orphans == {l \in d.lineItems : l.dealId = deal.id /\ l.id \notin RowIds(lineItems)}
      deals == SaveRow(d.deals, deal)
      items == {l \in d.lineItems : l.id \notin RowIds(lineItems)} \cup lineItems
  IN IF /\ orphans = {}
        /\ HubspotIdUnique(deals)
        /\ ForeignKey(deal.contactId, d.contacts)
        /\ HubspotIdUnique(items)
     THEN [d EXCEPT !.deals = deals, !.lineItems = items]
     ELSE d

\* DealsService.update: await findOne (the deal with its contact and its line
\* items), Object.assign(deal, dto), await save
DealsUpdate ==
  \/ \E row \in db.deals, b \in BOOLEAN :
       CrudFind("DealsUpdate", {[row EXCEPT !.hasLineItems = b]},
                {l \in db.lineItems : l.dealId = row.id})
  \/ /\ conc.crud.op = "DealsUpdate"
     /\ CrudSave(saveDealWithLineItems(db, CHOOSE r \in conc.crud.row : TRUE,
                                       conc.crud.items))

\* DealsService.remove: await findOne, await repository.remove(deal)
DealsRemove ==
  \/ \E row \in db.deals : CrudFind("DealsRemove", {row}, {})
  \/ /\ conc.crud.op = "DealsRemove"
     /\ CrudSave(DeleteDeal(db, (CHOOSE r \in conc.crud.row : TRUE).id))

\* LineItemsService.create
LineItemsCreate ==
  \E dl \in RowIds(db.deals) :
    LET dto == [hubspotId |-> CrudHubspotId, name |-> <<"item", 0>>, dealId |-> dl]
        saved == SaveRow(db.lineItems,
                         [id |-> GeneratedId(db.issued.lineItems),
                          hubspotId |-> dto.hubspotId,
                          name |-> dto.name,
                          quantity |-> 1,
                          price |-> Null,
                          productId |-> Null,
                          dealId |-> dto.dealId])
    IN CrudWrite(IF HubspotIdUnique(saved) /\ ForeignKey(dto.dealId, db.deals)
                 THEN [db EXCEPT !.lineItems = saved, !.issued.lineItems = @ + 1]
                 ELSE db)

\* LineItemsService.update: await findOne, Object.assign(lineItem, dto), await save
LineItemsUpdate ==
  \/ \E row \in db.lineItems :
       CrudFind("LineItemsUpdate", {[row EXCEPT !.quantity = CrudQuantity]}, {})
  \/ /\ conc.crud.op = "LineItemsUpdate"
     /\ LET lineItem == CHOOSE r \in conc.crud.row : TRUE
            saved == SaveRow(db.lineItems, lineItem)
        IN IF HubspotIdUnique(saved) /\ ForeignKey(lineItem.dealId, db.deals)
           THEN CrudSave([db EXCEPT !.lineItems = saved])
           ELSE CrudSave(db)

\* LineItemsService.remove: await findOne, await repository.remove(lineItem)
LineItemsRemove ==
  \/ \E row \in db.lineItems : CrudFind("LineItemsRemove", {row}, {})
  \/ /\ conc.crud.op = "LineItemsRemove"
     /\ LET lineItem == CHOOSE r \in conc.crud.row : TRUE
        IN CrudSave([db EXCEPT !.lineItems = {l \in @ : l.id # lineItem.id}])

\* the contacts of the seed script, in the order of its array
SeedContacts ==
  <<[firstname |-> "John", lastname |-> "Doe", email |-> "john.doe@example.com"],
    [firstname |-> "Jane", lastname |-> "Smith", email |-> "jane.smith@example.com"],
    [firstname |-> "Michael", lastname |-> "Johnson", email |-> "michael.johnson@example.com"],
    [firstname |-> "Emily", lastname |-> "Davis", email |-> "emily.davis@example.com"],
    [firstname |-> "David", lastname |-> "Wilson", email |-> "david.wilson@example.com"],
    [firstname |-> "Sarah", lastname |-> "Brown", email |-> "sarah.brown@example.com"],
    [firstname |-> "Robert", lastname |-> "Martinez", email |-> "robert.martinez@example.com"],
    [firstname |-> "Lisa", lastname |-> "Garcia", email |-> "lisa.garcia@example.com"],
    [firstname |-> "James", lastname |-> "Taylor", email |-> "james.taylor@example.com"],
    [firstname |-> "Maria", lastname |-> "Anderson", email |-> "maria.anderson@example.com"]>>

\* ContactSeeder.run: await count(); when the table is empty, await save of
\* the whole array, one INSERT per contact inside one transaction. A name of
\* the seed is stored as <<name, 0>>, the form every name has in this model
ContactSeederRun ==
  \/ /\ db.contacts = {}
     /\ CrudFind("ContactSeeder", {}, {})
  \/ /\ conc.crud.op = "ContactSeeder"
     /\ LET rows == {[id |-> db.issued.contacts + i,
                      firstname |-> <<SeedContacts[i].firstname, 0>>,
                      lastname |-> <<SeedContacts[i].lastname, 0>>,
                      email |-> SeedContacts[i].email,
                      hubspotId |-> NoHubspotId,
                      mocaUserId |-> Null, syncStatus |-> FALSE]
                       : i \in 1..Len(SeedContacts)}
            saved == db.contacts \cup rows
        IN IF ContactUnique(saved)
           THEN CrudSave([db EXCEPT !.contacts = saved,
                                    !.issued.contacts = @ + Len(SeedContacts)])
           ELSE CrudSave(db)

Next ==
  \/ Receive
  \/ Guard
  \/ Dispatch
  \/ ContactEvent
  \/ DealEvent
  \/ Respond
  \/ RemoteChange
  \/ OverlappingRequest
  \/ ContactsCreate
  \/ ContactsUpdate
  \/ ContactsRemove
  \/ CompaniesCreate
  \/ CompaniesUpdate
  \/ CompaniesRemove
  \/ DealsCreate
  \/ DealsUpdate
  \/ DealsRemove
  \/ LineItemsCreate
  \/ LineItemsUpdate
  \/ LineItemsRemove
  \/ ContactSeederRun

Spec == Init /\ [][Next]_vars

-----------------------------------------------------------------------------
(* The guard alone, over every configuration, body and header               *)

InitSig ==
  /\ appMode \in {"production", "development", Null}
  /\ webhookSecret \in {<<>>, Secret}
  /\ rawBody = <<49>>
  /\ signedBody = <<49>>
  /\ verdict = "none"
  /\ revision = "webhook.service"
  /\ InitPipeline
  /\ retry = IdleRetry
  /\ moca = IdleMoca
  /\ seq = IdleSeq
  /\ race = IdleRace

\* the sender signs signedBody with the shared secret; the body and the header
\* may each be altered in one character on the way (the body stays a JSON text,
\* anything else is refused by the body parser before the guard runs)
ReceiveSigned ==
  /\ pc = "idle"
  /\ \E signed \in RawBodies :
       LET sig == computeSignature(Secret, signed)
       IN \E raw \in {signed} \cup {m \in Mutations(signed, Digits \cup Whitespace) : IsJson(m)},
             h \in {NoHeader, Header(<<>>), Header(SubSeq(sig, 1, Len(sig) - 1)),
                    Header(Append(sig, 48))}
                     \cup {Header(v) : v \in {sig} \cup Mutations(sig, UnusedHexCodes)} :
            /\ signedBody' = signed
            /\ rawBody' = raw
            /\ header' = h
  /\ pc' = "guard"
  /\ UNCHANGED <<appMode, webhookSecret, verdict, revision, batch, idx, processed,
                 response, db, rEmail, rLineItems, changes, evCount, attempted,
                 threwAt, lastEv, redelivered, ev, conc, retry, moca, seq, race>>

NextSig ==
  \/ ReceiveSigned
  \/ Guard

SpecSig == InitSig /\ [][NextSig]_vars

-----------------------------------------------------------------------------
(* The retry loops, one action per iteration                                *)

InitRetry ==
  /\ InitGuardFixed
  /\ revision = "webhook.service"
  /\ InitPipeline
  /\ retry \in {StartRetry(m) : m \in {"Retry"} \cup NetworkCalls}
  /\ moca = IdleMoca
  /\ seq = IdleSeq
  /\ race = IdleRace

RetryVarsOnly ==
  UNCHANGED <<guardVars, mainVars, moca, seq, race>>

\* one iteration of the decorator's for-loop
RetryAttempt ==
  /\ retry.mode = "Retry"
  /\ retry.st = "calling"
  /\ retry.attempt <= maxAttempts
  /\ \E resp \in {Ok} \cup DecoratorErrors :
       LET isRetryable ==
             resp.apiError /\ (resp.retryable \/ resp.status \in retryableStatusCodes)
           delay == Min(retry.delay * backoffMultiplier, maxDelay)
           base == [retry EXCEPT !.invocations = @ + 1,
                                 !.last = resp,
                                 !.transient = @ /\ Transient(resp)]
       IN retry' =
            IF resp.ok THEN [base EXCEPT !.st = "returned"]
            ELSE IF retry.attempt = maxAttempts \/ ~isRetryable
            THEN [base EXCEPT !.st = "thrown"]
            ELSE [base EXCEPT !.delay = delay,
                              !.sleeps = Append(@, delay),
                              !.attempt = @ + 1]
  /\ RetryVarsOnly

\* one iteration of the for-loop of getContactById; after the last iteration
\* the method throws SERVICE_UNAVAILABLE
GetContactAttempt ==
  /\ retry.mode = "getContactById"
  /\ retry.st = "calling"
  /\ retry.attempt <= retryAttempts
  /\ \E resp \in {Ok} \cup ClientErrors :
       LET backoff == retryDelay * Pow(2, retry.attempt - 1)
           waitTime == IF resp.retryAfter # NoRetryAfter
                       THEN resp.retryAfter[1] * 1000
                       ELSE backoff
           base == [retry EXCEPT !.invocations = @ + 1,
                                 !.last = resp,
                                 !.transient = @ /\ Transient(resp)]
           after == IF retry.attempt = retryAttempts THEN "thrown503" ELSE "calling"
       IN retry' =
            IF resp.ok THEN [base EXCEPT !.st = "returned"]
            ELSE IF resp.has404 THEN [base EXCEPT !.st = "thrown404"]
            ELSE IF resp.status = 429
            THEN [base EXCEPT !.sleeps = Append(@, waitTime),
                              !.attempt = @ + 1, !.st = after]
            ELSE IF retry.attempt < retryAttempts
            THEN [base EXCEPT !.sleeps = Append(@, backoff), !.attempt = @ + 1]
            ELSE [base EXCEPT !.attempt = @ + 1, !.st = after]
  /\ RetryVarsOnly

\* getCompanyById, getDealById, getLineItemById: one try, any error is rethrown
\* as SERVICE_UNAVAILABLE
FetchAttempt ==
  /\ retry.mode \in SingleFetches
  /\ retry.st = "calling"
  /\ \E resp \in {Ok} \cup ClientErrors :
       LET base == [retry EXCEPT !.invocations = @ + 1,
                                 !.last = resp,
                                 !.transient = @ /\ Transient(resp)]
       IN retry' = IF resp.ok THEN [base EXCEPT !.st = "returned"]
                   ELSE [base EXCEPT !.st = "thrown503"]
  /\ RetryVarsOnly

\* the association reads: one try, any error is logged and [] is returned
AssociationAttempt ==
  /\ retry.mode \in AssociationReads
  /\ retry.st = "calling"
  /\ \E resp \in {Ok} \cup ClientErrors :
       LET base == [retry EXCEPT !.invocations = @ + 1,
                                 !.last = resp,
                                 !.transient = @ /\ Transient(resp)]
       IN retry' = IF resp.ok THEN [base EXCEPT !.st = "returned"]
                   ELSE [base EXCEPT !.st = "returnedEmpty"]
  /\ RetryVarsOnly

NextRetry ==
  \/ RetryAttempt
  \/ GetContactAttempt
  \/ FetchAttempt
  \/ AssociationAttempt

SpecRetry == InitRetry /\ [][NextRetry]_vars

-----------------------------------------------------------------------------
(* MocaService.syncContact, one action per fetch                           *)

InitMoca ==
  /\ InitGuardFixed
  /\ revision = "webhook.service"
  /\ InitPipeline
  /\ retry = IdleRetry
  /\ seq = IdleSeq
  /\ race = IdleRace
  /\ moca \in {StartSync(m) : m \in MocaIds \cup {Null}}

\* one invocation of makeRequest: fetch, the 409 and !ok checks, then either a
\* return, a delayed recursive call, or a throw that syncContact handles
MocaRequest ==
  /\ moca.st = "requesting"
  /\ \E resp \in MocaResponses :
       LET out == requestOutcome(resp)
           base == [moca EXCEPT !.log = Append(@, [method |-> moca.method,
                                                   status |-> resp.status,
                                                   mocaUserId |-> resp.mocaUserId,
                                                   id |-> resp.id])]
       IN moca' =
            IF out.ok THEN [base EXCEPT !.st = "returned", !.result = out.id]
            ELSE IF moca.attemptsLeft > 1
            THEN [base EXCEPT !.attemptsLeft = @ - 1, !.delays = @ + mocaRetryDelay]
            ELSE IF moca.fallbacks = 0 /\ fallbackApplies(moca.isUpdate, resp.status)
            THEN [base EXCEPT !.method = "POST",
                              !.attemptsLeft = mocaRetryAttempts,
                              !.fallbacks = @ + 1]
            ELSE [base EXCEPT !.st = "thrown", !.error = resp.status]
  /\ UNCHANGED <<guardVars, mainVars, retry, seq, race>>

\* syncContactToMoca: the statements after `await this.mocaService.syncContact`
\* and the catch block
SyncContactToMoca ==
  /\ moca.st \in {"returned", "thrown"}
  /\ ~moca.logged
  /\ moca' = [moca EXCEPT
                !.logged = TRUE,
                !.contact = recordSyncOutcome(@, moca.st = "returned", moca.result),
                !.created = @ \/ (/\ moca.st = "returned"
                                  /\ moca.method = "POST"
                                  /\ moca.log[Len(moca.log)].status \in {200, 201})]
  /\ UNCHANGED <<guardVars, mainVars, retry, seq, race>>

\* a later webhook for the same contact: upsertContact saves the row and hands
\* it to syncContactToMoca again
SyncAgain ==
  /\ moca.logged
  /\ moca.round < MaxSyncs
  /\ moca' = [StartSync(moca.contact.mocaUserId) EXCEPT
                !.contact = moca.contact,
                !.round = moca.round + 1,
                !.created = moca.created]
  /\ UNCHANGED <<guardVars, mainVars, retry, seq, race>>

NextMoca ==
  \/ MocaRequest
  \/ SyncContactToMoca
  \/ SyncAgain

SpecMoca == InitMoca /\ [][NextMoca]_vars

-----------------------------------------------------------------------------
(* One batch loop followed await by await. A promise that is started is    *)
(* in `running` until it settles; the loop goes on only past an await      *)
(* whose promise has settled.                                              *)

InitSeq ==
  /\ InitGuardFixed
  /\ revision = "webhook.service"
  /\ InitPipeline
  /\ retry = IdleRetry
  /\ moca = IdleMoca
  /\ race = IdleRace
  /\ seq \in {[path |-> p, batch |-> b, i |-> 1, step |-> "begin", running |-> {},
               started |-> <<>>, threw |-> <<>>] :
               p \in {"contact", "deal"}, b \in SeqsUpTo(ObjectIds, MaxBatch)}

SeqVarsOnly == UNCHANGED <<guardVars, mainVars, retry, moca, race>>

\* faulty variant: the loop takes the same event again
sameEvent(s, threw) == [s EXCEPT !.step = "begin"]

\* the for-loop goes to its next event, after the try or after the catch
nextEvent(s, threw) ==
  [s EXCEPT !.i = @ + 1, !.step = "begin", !.threw = Append(@, threw)]

\* promises are created for the event the loop is at
Started(s, tasks) ==
  [s EXCEPT !.running = @ \cup {[ev |-> s.i, task |-> t] : t \in tasks},
            !.started = Append(@, s.i)]

\* processContactEvent of the current revision: getContactById is awaited;
\* mocaHealh() and syncContactToMoca() are called without await
SeqContactEvent ==
  /\ seq.path = "contact"
  /\ seq.step = "begin"
  /\ seq.i <= Len(seq.batch)
  /\ \E fetched \in BOOLEAN, e \in Emails \cup {""} :
       LET hubspotContact == getContactById(seq.batch[seq.i], e)
       IN seq' =
            IF ~fetched \/ ~validateContactData(hubspotContact)
                 \/ ~hasMocaIdDatabase(hubspotContact)
            THEN nextEvent(seq, TRUE)
            ELSE IF ~isAPiMocaUp
            THEN nextEvent(Started(seq, {"mocaHealh"}), FALSE)
            ELSE nextEvent(Started(seq, {"mocaHealh", "syncContactToMoca"}), FALSE)
  /\ SeqVarsOnly

\* processDealEvent up to the contact: the fetches and the lookup are awaited;
\* upsertContact saves and then awaits syncContactToMoca
SeqDealEvent ==
  /\ seq.path = "deal"
  /\ seq.step = "begin"
  /\ seq.i <= Len(seq.batch)
  /\ \E outcome \in {"threw", "noContacts", "contactKnown", "contactSaved"} :
       seq' = IF outcome = "threw" THEN nextEvent(seq, TRUE)
              ELSE IF outcome = "noContacts" THEN nextEvent(seq, FALSE)
              ELSE IF outcome = "contactKnown" THEN [seq EXCEPT !.step = "rest"]
              ELSE [Started(seq, {"syncContactToMoca"}) EXCEPT !.step = "awaitSync"]
  /\ SeqVarsOnly

\* a promise in flight settles
SeqSettle ==
  /\ \E t \in seq.running : seq' = [seq EXCEPT !.running = @ \ {t}]
  /\ SeqVarsOnly

\* await this.syncContactToMoca(savedContact) returns
SeqResume ==
  /\ seq.step = "awaitSync"
  /\ \A t \in seq.running : t.ev # seq.i
  /\ seq' = [seq EXCEPT !.step = "rest"]
  /\ SeqVarsOnly

\* the companies, the deal and the line items, each call awaited
SeqDealRest ==
  /\ seq.step = "rest"
  /\ \E threw \in BOOLEAN : seq' = nextEvent(seq, threw)
  /\ SeqVarsOnly

\* return processed
SeqRespond ==
  /\ seq.step = "begin"
  /\ seq.i > Len(seq.batch)
  /\ seq' = [seq EXCEPT !.step = "responded"]
  /\ SeqVarsOnly

NextSeq ==
  \/ SeqContactEvent
  \/ SeqDealEvent
  \/ SeqSettle
  \/ SeqResume
  \/ SeqDealRest
  \/ SeqRespond

SpecSeq == InitSeq /\ [][NextSeq]_vars

-----------------------------------------------------------------------------
(* Two requests handled at once: each upsertContact is a findOne and, after *)
(* an await, a save; the event loop may run the other request in between   *)

ExistingContact ==
  upsertContact(EmptyDb, {}, [firstname |-> getContactById(1, "a@x").firstname,
                              lastname |-> getContactById(1, "a@x").lastname,
                              email |-> "a@x", hubspotId |-> 1], {}).db.contacts

Request(c, e) == [hubspotId |-> c, email |-> e, step |-> "find", found |-> {}]

RequestData(q) ==
  [firstname |-> getContactById(q.hubspotId, q.email).firstname,
   lastname |-> getContactById(q.hubspotId, q.email).lastname,
   email |-> q.email, hubspotId |-> q.hubspotId]

InitRace ==
  /\ InitGuardFixed
  /\ revision = "webhook.service"
  /\ InitPipeline
  /\ retry = IdleRetry
  /\ moca = IdleMoca
  /\ seq = IdleSeq
  /\ race \in {[initial |-> rs, rows |-> rs,
                 req |-> <<Request(c1, e1), Request(c2, e2)>>] :
                rs \in {{}, ExistingContact},
                c1 \in ContactIds, c2 \in ContactIds, e1 \in Emails, e2 \in Emails}

RaceVarsOnly == UNCHANGED <<guardVars, mainVars, retry, moca, seq>>

\* await this.contactRepository.findOne({ where: [{email}, {hubspotId}] })
\* the query has no ORDER BY: when the email matches one row and the hubspotId
\* another, the database returns either
RaceFind(r) ==
  /\ race.req[r].step = "find"
  /\ \E byEmail \in Choices(race.rows, race.req[r].hubspotId,
                             [c \in {race.req[r].hubspotId} |-> race.req[r].email]) :
       race' = [race EXCEPT
                  !.req[r].found =
                    findOneByEmailOrHubspotId(race.rows, race.req[r].email,
                                              race.req[r].hubspotId, byEmail),
                  !.req[r].step = "save"]
  /\ RaceVarsOnly

\* await this.contactRepository.save(contact): the entity was built from what
\* findOne returned; a unique column rejected by the database makes save throw
RaceSave(r) ==
  /\ race.req[r].step = "save"
  /\ LET contact == buildContact(NextId(race.rows), race.req[r].found,
                                 RequestData(race.req[r]))
         saved == SaveRow(race.rows, contact)
     IN race' = IF ContactUnique(saved)
                THEN [race EXCEPT !.rows = saved, !.req[r].step = "done"]
                ELSE [race EXCEPT !.req[r].step = "threw"]
  /\ RaceVarsOnly

NextRace == \E r \in {1, 2} : RaceFind(r) \/ RaceSave(r)

SpecRace == InitRace /\ [][NextRace]_vars

-----------------------------------------------------------------------------
(* Termination: a batch loop, a retry loop or a downstream sync, each      *)
(* started on its own and run under weak fairness: a call that was issued   *)
(* eventually succeeds or fails, a handler that can go on does              *)

InitLive ==
  \/ InitSeq
  \/ InitRetry
  \/ InitMoca

NextLive ==
  \/ NextSeq
  \/ NextRetry
  \/ NextMoca

SpecLive ==
  /\ InitLive
  /\ [][NextLive]_vars
  /\ WF_vars(NextSeq)
  /\ WF_vars(NextRetry)
  /\ WF_vars(NextMoca)

-----------------------------------------------------------------------------
(* Properties                                                               *)

Responded200 == pc = "responded" /\ response.status = "success"

\* C1: when the handling of event N of a batch throws, every later event of the
\* batch is still attempted (its root fetch is invoked) before the batch is answered.
C1_LaterEventsAttempted ==
  /\ pc \in {"contactLoop", "dealLoop"} =>
       attempted = 1..(IF ev.todo = <<>> THEN idx - 1 ELSE idx)
  /\ Responded200 =>
       \A n \in threwAt : \A m \in (n + 1)..Len(batch) : m \in attempted

C1_Witness ==
  /\ Responded200
  /\ Len(batch) = MaxBatch
  /\ 1 \in threwAt
  /\ attempted = 1..Len(batch)

\* C2: a batch that passed the guard is answered 200 with processed equal to the
\* number of its events whose handling did not throw, between 0 and the batch
\* length, also when every event failed.
C2_ProcessedCount ==
  (pc = "responded" /\ verdict = "pass") =>
    /\ response.code = 200
    /\ response.processed >= 0
    /\ response.processed <= Len(batch)
    /\ response.processed = Cardinality(attempted \ threwAt)

C2_Witness ==
  /\ Responded200
  /\ response.code = 200
  /\ Len(batch) = MaxBatch
  /\ threwAt = 1..Len(batch)
  /\ response.processed = 0

\* the signature the guard expects for the request at hand
ExpectedSignature ==
  computeSignature(webhookSecret, JsonStringify(JsonParse(rawBody)))

BadSignature == ~header.present \/ header.value # ExpectedSignature

\* C3: in production with a secret, a request whose signature header is missing
\* or differs from the expected signature is answered 401 and none of its events
\* is handled: no remote call, no local write.
C3_RejectedBeforeHandling ==
  (/\ appMode = "production"
   /\ webhookSecret # <<>>
   /\ pc \notin {"idle", "guard"}
   /\ BadSignature) =>
    /\ pc = "responded"
    /\ verdict = "unauthorized"
    /\ response.code = 401
    /\ attempted = {}
    /\ processed = 0

C3_Witness ==
  /\ verdict = "unauthorized"
  /\ response.code = 401
  /\ header.present
  /\ Len(batch) = MaxBatch
  /\ db = EmptyDb

\* C4: with verification active the guard accepts a request if and only if the
\* header equals the hex SHA-256 of secret + body, the body being the bytes received.
C4_AcceptsIffSignedBody ==
  (appMode = "production" /\ webhookSecret # <<>> /\ verdict # "none") =>
    (verdict = "pass" <=>
       (header.present /\ header.value = sha256Hex(webhookSecret \o rawBody)))

EvKind == IF pc = "contactLoop" THEN "contact" ELSE "deal"
EvId == batch[idx].objectId
EvFaults == FaultSets(ReachableCalls(EvKind, EvId), MaxFaults)
Run(d, F, byEmail) ==
  ProcessEvent(d, revision, EvKind, EvId, F, byEmail, rEmail, rLineItems)

\* C5: handling the same event a second time, with the remote state unchanged,
\* leaves the store exactly as the first handling left it.
C5_Idempotent ==
  AtEvent =>
    \A F \in EvFaults, b1 \in BOOLEAN, b2 \in BOOLEAN :
      Run(Run(db, F, b1).db, F, b2).db = Run(db, F, b1).db

C5_Witness ==
  /\ redelivered
  /\ lastEv.kind = "contact"
  /\ ~lastEv.threw
  /\ Cardinality(db.companies) = NCompanies
  /\ Cardinality(db.deals) = NDeals

Synced(rows, h) == \E r \in rows : r.hubspotId = h

NoDuplicate(rows) ==
  \A r1, r2 \in rows :
    (r1.hubspotId = r2.hubspotId /\ r1.hubspotId # NoHubspotId) => r1 = r2

\* the upsert with answer r turned the table `before` into `after`: the row
\* of hubspotId h kept its id, no row was added and no other row was touched
UpdatedInPlace(before, r, after, h) ==
  /\ r.ok
  /\ RowIds(after) = RowIds(before)
  /\ \E old \in before, new \in after :
       old.hubspotId = h /\ new.hubspotId = h /\ new.id = old.id /\ r.id = old.id
  /\ \A x \in before : x.hubspotId # h => x \in after
  /\ NoDuplicate(after)

\* C6: each table holds at most one row per hubspotId, and an upsert (findOne,
\* then save, nothing in between) for a hubspotId that has a row updates that
\* row: the row keeps its id and takes the values and the link of the upsert,
\* no row is added. For a contact, whose lookup is by email or hubspotId, no
\* row is added either, and a save that is accepted updated the row of the
\* hubspotId.
C6_OneRowPerRemoteId ==
  /\ NoDuplicate(db.contacts)
  /\ NoDuplicate(db.companies)
  /\ NoDuplicate(db.deals)
  /\ NoDuplicate(db.lineItems)
  /\ \A l \in LineItemIds, dl \in db.deals :
       LET found == findOneByHubspotId(db.lineItems, l)
           lineItemData == getLineItemById(l)
           r == upsertLineItem(db, found, [hubspotId |-> l,
                                           name |-> lineItemData.name,
                                           quantity |-> lineItemData.quantity,
                                           price |-> lineItemData.price,
                                           productId |-> lineItemData.productId,
                                           dealId |-> dl.id], {})
       IN found # {} =>
            /\ UpdatedInPlace(db.lineItems, r, r.db.lineItems, l)
            /\ \A row \in r.db.lineItems :
                 row.hubspotId = l =>
                   /\ row.dealId = dl.id
                   /\ row.name = lineItemData.name
                   /\ row.quantity = lineItemData.quantity
  /\ \A k \in CompanyIds, c \in db.contacts :
       LET found == findOneByHubspotId(db.companies, k)
           companyData == getCompanyById(k)
           r == upsertCompany(db, found, [hubspotId |-> k,
                                          name |-> companyData.name,
                                          domain |-> companyData.domain,
                                          contactId |-> c.id], {})
       IN found # {} =>
            /\ UpdatedInPlace(db.companies, r, r.db.companies, k)
            /\ \A row \in r.db.companies :
                 row.hubspotId = k =>
                   row.contactId = c.id /\ row.name = companyData.name
  /\ \A dl \in DealIds, c \in db.contacts, b \in BOOLEAN :
       LET found == findOneByHubspotId(db.deals, dl)
           dealData == getDealById(dl)
           r == upsertDeal(db, found, [hubspotId |-> dl,
                                       name |-> dealData.name,
                                       stage |-> dealData.stage,
                                       amount |-> dealData.amount,
                                       hasLineItems |-> b,
                                       contactId |-> c.id], {})
       IN found # {} =>
            /\ UpdatedInPlace(db.deals, r, r.db.deals, dl)
            /\ \A row \in r.db.deals :
                 row.hubspotId = dl =>
                   /\ row.contactId = c.id
                   /\ row.name = dealData.name
                   /\ row.hasLineItems = b
  /\ \A c \in ContactIds, e \in Emails, byEmail \in BOOLEAN :
       LET found == findOneByEmailOrHubspotId(db.contacts, e, c, byEmail)
           hubspotContact == getContactById(c, e)
           r == upsertContact(db, found, [firstname |-> hubspotContact.firstname,
                                          lastname |-> hubspotContact.lastname,
                                          email |-> hubspotContact.email,
                                          hubspotId |-> c], {})
       IN Synced(db.contacts, c) =>
            /\ RowIds(r.db.contacts) = RowIds(db.contacts)
            /\ NoDuplicate(r.db.contacts)
            /\ r.ok =>
                 /\ UpdatedInPlace(db.contacts, r, r.db.contacts, c)
                 /\ \A row \in r.db.contacts : row.hubspotId = c => row.email = e

C6_Witness ==
  /\ redelivered
  /\ lastEv.kind = "deal"
  /\ ~lastEv.threw
  /\ Cardinality(db.contacts) = 1
  /\ Cardinality(db.companies) = NCompanies
  /\ Cardinality(db.deals) = 1
  /\ Cardinality(db.lineItems) = NLineItems

Fails(name, id, F) == Call(name, id) \in F
FailsIn(name, id, parent, F) == CallIn(name, id, parent) \in F
Cascades == EvKind = "deal" \/ revision = "part_016"

\* the event reached its cascade: it did not throw and the root had a contact
Reached(r, F) ==
  ~r.threw /\ (EvKind = "deal" => Len(getDealContacts(EvId, F)) > 0)

FetchedCompanies(F) ==
  IF EvKind = "contact" THEN getContactCompanies(EvId, F) ELSE getDealCompanies(EvId, F)

FetchedDeals(F) == IF EvKind = "contact" THEN getContactDeals(EvId, F) ELSE <<EvId>>

\* the fetch and the upsert of the deal succeeded
DealSynced(r, dl, F) ==
  EvKind = "deal"
    \/ (~Fails("getDealById", dl, F) /\ ~Fails("saveDeal", dl, F))

\* C7: a company whose fetch or upsert fails does not stop the other associated
\* companies from being upserted, nor the contact's upsert, nor the deal sync.
C7_CompanyIsolation ==
  (AtEvent /\ Cascades) =>
    \A F \in EvFaults, b \in BOOLEAN :
      LET r == Run(db, F, b)
      IN Reached(r, F) =>
           /\ \A k \in Range(FetchedCompanies(F)) :
                (~Fails("getCompanyById", k, F) /\ ~Fails("saveCompany", k, F))
                  => Synced(r.db.companies, k)
           /\ Synced(r.db.contacts, ContactOf(EvKind, EvId))
           /\ \A dl \in Range(FetchedDeals(F)) :
                DealSynced(r, dl, F) => Synced(r.db.deals, dl)

C7_Witness ==
  /\ lastEv.kind = "contact"
  /\ ~lastEv.threw
  /\ {r.hubspotId : r \in db.companies} = CompanyIds \ {2}
  /\ Synced(db.contacts, 1)
  /\ Cardinality(db.deals) = NDeals

\* C8: a deal or line item whose fetch or upsert fails does not stop its siblings
\* from being upserted, nor the parent's upsert: every deal whose own fetch and
\* upsert did not fail has its row, and every line item listed by such a deal
\* whose fetch and upsert did not fail under that deal has its row, also when
\* the same line item failed under another deal of the event.
C8_SiblingIsolation ==
  (AtEvent /\ Cascades) =>
    \A F \in EvFaults, b \in BOOLEAN :
      LET r == Run(db, F, b)
      IN Reached(r, F) =>
           /\ Synced(r.db.contacts, ContactOf(EvKind, EvId))
           /\ \A dl \in Range(FetchedDeals(F)) :
                DealSynced(r, dl, F) =>
                  /\ Synced(r.db.deals, dl)
                  /\ \A l \in Range(getDealLineItems(dl, F, rLineItems)) :
                       (/\ ~FailsIn("getLineItemById", l, dl, F)
                        /\ ~FailsIn("saveLineItem", l, dl, F))
                         => Synced(r.db.lineItems, l)

\* two deals of one contact list the same line items; line item 1 failed under
\* the first deal and was inserted under the second, after line item 2
C8_Witness ==
  /\ lastEv.kind = "contact"
  /\ ~lastEv.threw
  /\ ~lastEv.clean
  /\ rLineItems[1] = UpTo(NLineItems)
  /\ rLineItems[2] = UpTo(NLineItems)
  /\ Cardinality(db.deals) = NDeals
  /\ {r.hubspotId : r \in db.lineItems} = LineItemIds
  /\ \E first \in db.lineItems, second \in db.lineItems, deal \in db.deals :
       /\ first.hubspotId = 1
       /\ second.hubspotId = 2
       /\ second.id < first.id
       /\ deal.hubspotId = 2
       /\ first.dealId = deal.id
       /\ second.dealId = deal.id

\* the line-item ids the association read of deal dl answers the event with
ReadLineItems(dl, F) == getDealLineItems(dl, F, rLineItems)

\* the deal was stored by the run: in the deal path upsertDeal returned, in
\* the contact path the event ended and the deal's fetch and upsert did not fail
DealStored(r, dl, F) ==
  IF EvKind = "deal" THEN r.ev.dealId # 0
  ELSE ~r.threw /\ dl \in Range(FetchedDeals(F)) /\ DealSynced(r, dl, F)

\* C9 as stated: after a deal is synced its hasLineItems equals (the deal has
\* associated line-item ids), whatever was stored before.
C9_FlagFromAssociations ==
  (AtEvent /\ Cascades) =>
    \A F \in EvFaults, b \in BOOLEAN, dl \in DealIds :
      LET r == Run(db, F, b)
      IN (dl \in Range(FetchedDeals(F)) /\ DealStored(r, dl, F)) =>
           \A row \in r.db.deals :
             row.hubspotId = dl => row.hasLineItems = (Len(rLineItems[dl]) > 0)

\* C9 (as the code has it): after a deal is stored its hasLineItems is
\* recomputed, whatever was stored before, from the list the association read
\* returned, which is empty when the read fails. Contact path: the flag equals
\* (that list is non-empty). Deal path: the deal is stored with false and
\* patched to true after its line items when the list is non-empty; the event
\* throws exactly when that patch fails, and the flag is then left false.
C9_HasLineItemsRecomputed ==
  (AtEvent /\ Cascades) =>
    \A F \in EvFaults, b \in BOOLEAN, dl \in DealIds :
      LET r == Run(db, F, b)
          patchFailed == Len(ReadLineItems(dl, F)) > 0 /\ Fails("updateDeal", dl, F)
      IN (dl \in Range(FetchedDeals(F)) /\ DealStored(r, dl, F)) =>
           /\ Synced(r.db.deals, dl)
           /\ EvKind = "deal" => (r.threw <=> patchFailed)
           /\ \A row \in r.db.deals :
                row.hubspotId = dl =>
                  /\ EvKind = "deal" => row.id = r.ev.dealId
                  /\ row.hasLineItems = (Len(ReadLineItems(dl, F)) > 0 /\ ~patchFailed)

C9_Witness ==
  /\ lastEv.clean
  /\ ~lastEv.threw
  /\ rLineItems[1] = <<>>
  /\ \E row \in db.deals :
       /\ row.hubspotId = 1
       /\ ~row.hasLineItems
       /\ \E li \in db.lineItems : li.dealId = row.id

\* C10: when every error is a 429 or a 5xx, the call is invoked again until it
\* succeeds or the attempts are used up, never more often, and the waits between
\* attempts never decrease.
AttemptLimit == IF retry.mode = "Retry" THEN maxAttempts ELSE retryAttempts

C10_RetriesTransientErrors ==
  (retry.mode \in {"Retry", "getContactById"} /\ retry.transient) =>
    /\ retry.invocations <= AttemptLimit
    /\ retry.st # "calling" => (retry.st = "returned" \/ retry.invocations = AttemptLimit)
    /\ \A i \in 1..(retry.invocations - 2) : retry.sleeps[i] <= retry.sleeps[i + 1]

\* C11: a failure answered 404 is never retried and is surfaced as it is (NOT_FOUND
\* by getContactById, the original error by the decorator); conversely an error
\* whose status is not 404 is never reported as NOT_FOUND
C11_NotFoundOnlyFor404 ==
  (retry.mode \in {"Retry", "getContactById"} /\ retry.invocations > 0) =>
    /\ (~retry.last.ok /\ retry.last.status = 404) =>
          retry.st \in {"thrown404", "thrown"}
    /\ retry.st = "thrown404" => retry.last.status = 404

\* C12: an error answered with a 4xx status other than 404 and 429 ends the
\* operation at once with a terminal error: no further invocation follows it,
\* under the decorator and in getContactById alike
ClientErrorStatuses == {st \in Statuses : st >= 400 /\ st < 500} \ {404, 429}

C12_ClientErrorsNeverRetried ==
  (/\ retry.mode \in {"Retry", "getContactById"}
   /\ retry.invocations > 0
   /\ ~retry.last.ok
   /\ retry.last.status \in ClientErrorStatuses) =>
    retry.st = "thrown"

\* C13: in every method of HubSpotService that calls the API, a first invocation
\* failing with 429 or 5xx is followed by another attempt: the failure is
\* neither surfaced nor swallowed
C13_EveryCallRetried ==
  (/\ retry.mode \in NetworkCalls
   /\ retry.invocations = 1
   /\ ~retry.last.ok
   /\ Transient(retry.last)
   /\ ~retry.last.has404) =>
    retry.st = "calling"

\* C14: in the contact path of the current revision, a contact event whose
\* contact is fetched with a valid email ends with the Contact row upserted and
\* without an exception (so it is counted), whether the downstream sync fails
\* or not
MocaFaults == {{}, {Call("syncContact", EvId)}}

C14_MocaNeverBlocksContactSync ==
  (/\ AtEvent
   /\ revision = "webhook.service"
   /\ EvKind = "contact"
   /\ rEmail[EvId] # ""
   /\ ~Ambiguous(db.contacts, EvId, rEmail)) =>
    \A F \in MocaFaults :
      LET r == Run(db, F, TRUE)
      IN ~r.threw /\ Synced(r.db.contacts, EvId)

\* the update ran out of attempts and its last answer was 404
UpdateEnded404 ==
  /\ moca.isUpdate
  /\ Len(moca.log) >= mocaRetryAttempts
  /\ moca.log[mocaRetryAttempts].method = "PUT"
  /\ moca.log[mocaRetryAttempts].status = 404

Creates == {i \in 1..Len(moca.log) : moca.log[i].method = "POST"}
LastAnswer == moca.log[Len(moca.log)]
AnswerId(a) ==
  IF a.status = 409 /\ a.mocaUserId # Null THEN a.mocaUserId ELSE a.id

\* C15 (as the code has it): when the update for a stored mocaUserId ends, after
\* the retries of makeRequest, with 404, syncContact starts the create exactly
\* once; every later request is a POST, at most mocaRetryAttempts of them; the
\* id returned is the one the create answered; when the create fails its error
\* is thrown and no second fallback is made. No create follows an update that
\* did not end with 404.
C15_FallbackToCreateOnce ==
  moca.st # "idle" =>
    /\ moca.fallbacks <= 1
    /\ moca.isUpdate => (UpdateEnded404 <=> moca.fallbacks = 1)
    /\ (moca.isUpdate /\ Creates # {}) => UpdateEnded404
    /\ UpdateEnded404 =>
         /\ Creates = (mocaRetryAttempts + 1)..Len(moca.log)
         /\ Len(moca.log) <= 2 * mocaRetryAttempts
         /\ moca.st = "returned" =>
              /\ Creates # {}
              /\ moca.result = AnswerId(LastAnswer)
         /\ moca.st = "thrown" =>
              /\ Len(moca.log) = 2 * mocaRetryAttempts
              /\ moca.error = LastAnswer.status

C15_Witness ==
  /\ UpdateEnded404
  /\ moca.st = "returned"
  /\ moca.fallbacks = 1
  /\ LastAnswer.status = 201
  /\ moca.result = LastAnswer.id

\* C15 as stated: whenever a PUT is answered with 404 the service falls back to
\* the create, and the create is requested exactly once
C15_FallbackAtEvery404 ==
  /\ \A i \in 1..Len(moca.log) :
       (moca.log[i].method = "PUT" /\ moca.log[i].status = 404) =>
         (moca.fallbacks = 1 /\ \A j \in (i + 1)..Len(moca.log) : j \in Creates)
  /\ moca.isUpdate => Cardinality(Creates) <= 1

\* C16 (as the code has it): a 409 answer to a create whose body carries
\* mocaUserId or id ends the sync at once with success: no error, no further
\* request, and the id returned is the body's mocaUserId, or its id when
\* mocaUserId is absent
C16_ConflictWithIdIsSuccess ==
  \A i \in Creates :
    (moca.log[i].status = 409 /\ AnswerId(moca.log[i]) # Null) =>
      /\ i = Len(moca.log)
      /\ moca.st = "returned"
      /\ moca.error = 0
      /\ moca.result = AnswerId(moca.log[i])

C16_Witness ==
  /\ moca.st = "returned"
  /\ ~moca.isUpdate
  /\ Len(moca.log) = 1
  /\ LastAnswer.status = 409
  /\ LastAnswer.mocaUserId = Null
  /\ moca.result = LastAnswer.id
  /\ moca.result # Null

\* C16 as stated: every 409 answer to a create ends the sync with success
C16_EveryConflictIsSuccess ==
  \A i \in Creates :
    moca.log[i].status = 409 =>
      /\ i = Len(moca.log)
      /\ moca.st = "returned"
      /\ moca.result # Null

\* C17: in the contact path, the handler of an event whose contact is fetched
\* with an empty email ends at that fetch: it leaves the store as it was, does
\* not raise the processed counter, records the event as failed, and the loop
\* moves on to the next event
C17_EmptyEmailFailsAlone ==
  [][(/\ AtEvent
      /\ EvKind = "contact"
      /\ rEmail[EvId] = ""
      /\ idx \in attempted') =>
       /\ evCount' = evCount + 1
       /\ ev' = NoEv
       /\ db' = db
       /\ processed' = processed
       /\ threwAt' = threwAt \cup {idx}
       /\ idx' = idx + 1]_vars

C17_Witness ==
  /\ Responded200
  /\ revision = "part_016"
  /\ Len(batch) = MaxBatch
  /\ batch[1].subscriptionType = "contact.propertyChange"
  /\ rEmail[batch[1].objectId] = ""
  /\ threwAt = {1}
  /\ attempted = 1..Len(batch)
  /\ response.processed = Len(batch) - 1
  /\ ~Synced(db.contacts, batch[1].objectId)

\* C18: on every store the program reaches and for every contact fetched,
\* upsertContact inserts one row when no row has the incoming email or
\* hubspotId, and otherwise keeps the row count and the row ids: the one
\* matching row is rewritten in place
ContactMatches(rows, email, hubspotId) ==
  {r \in rows : r.email = email \/ r.hubspotId = hubspotId}
C18_UpsertContactInPlace ==
  \A c \in ContactIds, e \in Emails, b \in BOOLEAN :
    LET fetched == getContactById(c, e)
        data == [firstname |-> fetched.firstname, lastname |-> fetched.lastname,
                 email |-> e, hubspotId |-> c]
        matches == ContactMatches(db.contacts, e, c)
        r == upsertContact(db, findOneByEmailOrHubspotId(db.contacts, data.email,
                                 data.hubspotId, b), data, {})
        stored == {row \in r.db.contacts : row.hubspotId = c /\ row.email = e}
    IN /\ matches = {} =>
            /\ r.ok
            /\ Cardinality(r.db.contacts) = Cardinality(db.contacts) + 1
            /\ db.contacts \subseteq r.db.contacts
            /\ stored # {}
       /\ matches # {} =>
            /\ Cardinality(r.db.contacts) = Cardinality(db.contacts)
            /\ RowIds(r.db.contacts) = RowIds(db.contacts)
            /\ Cardinality(matches) = 1 =>
                 /\ r.ok
                 /\ RowIds(stored) = RowIds(matches)

\* a row written for contact 1 (the only contact with deals) now carries the
\* hubspotId of another contact: it was matched by email and rewritten
C18_Witness ==
  /\ revision = "part_016"
  /\ db.deals # {}
  /\ Cardinality(db.contacts) = 1
  /\ \A row \in db.contacts :
       /\ row.hubspotId # 1
       /\ row.email = rEmail[row.hubspotId]
       /\ \A dl \in db.deals : dl.contactId = row.id

\* C19: in the deal path, a deal for which getDealContacts yields no contact
\* (none associated, or the association read failed) is left at that: the
\* store is unchanged; and every event of a deal batch is attempted before the
\* batch is answered
C19_DealWithoutContactsSkipped ==
  /\ (AtEvent /\ EvKind = "deal") =>
       \A F \in EvFaults :
         Len(getDealContacts(EvId, F)) = 0 => Run(db, F, TRUE).db = db
  /\ (Responded200 /\ Route(batch) = "deal") => attempted = 1..Len(batch)

C19_Witness ==
  /\ Responded200
  /\ Len(batch) = MaxBatch
  /\ \A i \in 1..Len(batch) : batch[i].subscriptionType = "deal.creation"
  /\ RemoteDealContacts(batch[1].objectId) = <<>>
  /\ RemoteDealContacts(batch[Len(batch)].objectId) # <<>>
  /\ attempted = 1..Len(batch)
  /\ threwAt = {}
  /\ ~Synced(db.deals, batch[1].objectId)
  /\ Synced(db.deals, batch[Len(batch)].objectId)

\* C20: an event whose subscriptionType is neither contact.* nor deal.* is
\* never handled: no root fetch is invoked for it, so it writes nothing and
\* counts for nothing
HandledTypes ==
  {"contact.creation", "contact.propertyChange", "contact.deletion",
   "deal.creation", "deal.propertyChange"}

C20_OtherTypesIgnored ==
  \A i \in attempted : batch[i].subscriptionType \in HandledTypes

\* the sync path the subscriptionType of one event calls for
PathOf(event) == Route(<<event>>)

\* C21: when a batch that passed the guard is answered, every contact event of
\* it was handled by the contact path, every deal event by the deal path, and
\* no event of another type was handled, whatever the first event's type is
C21_DispatchPerEvent ==
  (pc = "responded" /\ verdict = "pass") =>
    \A i \in 1..Len(batch) :
      IF PathOf(batch[i]) = "ignored"
      THEN i \notin attempted
      ELSE i \in attempted /\ Route(batch) = PathOf(batch[i])

\* C24: with verification active, a request whose body bytes differ from the
\* re-serialisation of their parsed JSON and whose header is the hex SHA-256 of
\* secret + the bytes received is accepted
C24_RawBytesAreHashed ==
  (/\ appMode = "production"
   /\ webhookSecret # <<>>
   /\ verdict # "none"
   /\ rawBody # JsonStringify(JsonParse(rawBody))
   /\ header = Header(sha256Hex(webhookSecret \o rawBody))) =>
    verdict = "pass"

\* C22: the events of a batch are handled one after the other in delivery
\* order: every promise in flight belongs to the event the loop is at and is
\* being awaited, so nothing started for event N is still running when event
\* N+1 begins or when the batch is answered
C22_Sequential ==
  seq.path # "none" =>
    /\ \A t \in seq.running : t.ev = seq.i /\ seq.step = "awaitSync"
    /\ seq.step \in {"begin", "responded"} => seq.running = {}
    /\ Len(seq.threw) = seq.i - 1

C22_Witness ==
  /\ seq.path = "deal"
  /\ Len(seq.batch) = MaxBatch
  /\ seq.i = MaxBatch
  /\ seq.step = "awaitSync"
  /\ seq.running = {[ev |-> MaxBatch, task |-> "syncContactToMoca"]}
  /\ seq.started = <<1, MaxBatch>>
  /\ seq.threw[1] = FALSE

\* the rows left by upsert a followed by upsert b, each run whole; when the
\* email matches one row and the hubspotId another, the save is rejected
\* whichever row findOne returns, so the rows do not depend on that choice
Serial(rows, a, b) ==
  LET d0 == [EmptyDb EXCEPT !.contacts = rows,
                            !.issued.contacts = Cardinality(rows)]
      d1 == upsertContact(d0, findOneByEmailOrHubspotId(d0.contacts, RequestData(a).email,
                                 RequestData(a).hubspotId, TRUE), RequestData(a), {}).db
  IN upsertContact(d1, findOneByEmailOrHubspotId(d1.contacts, RequestData(b).email,
                                 RequestData(b).hubspotId, TRUE), RequestData(b), {}).db.contacts

\* C23: the find and the save of one upsert are never separated by a step of
\* another upsert; and when two requests have upserted the same hubspotId,
\* neither failed, one row carries that hubspotId, and the table is the one
\* left by running the two upserts one after the other in some order
C23_UpsertsAtomic ==
  race.req # <<>> =>
    /\ ~(race.req[1].step = "save" /\ race.req[2].step = "save")
    /\ (/\ race.req[1].hubspotId = race.req[2].hubspotId
        /\ \A r \in {1, 2} : race.req[r].step \in {"done", "threw"}) =>
         /\ \A r \in {1, 2} : race.req[r].step = "done"
         /\ Cardinality({x \in race.rows : x.hubspotId = race.req[1].hubspotId}) = 1
         /\ race.rows \in {Serial(race.initial, race.req[1], race.req[2]),
                            Serial(race.initial, race.req[2], race.req[1])}

\* C25: every batch loop that was entered eventually returns its count, every
\* remote call under a retry loop eventually returns or throws, and every
\* downstream sync eventually returns or throws
C25_EventuallyResponds ==
  /\ (seq.step \in {"begin", "awaitSync", "rest"}) ~> (seq.step = "responded")
  /\ (retry.st = "calling") ~>
       (retry.st \in {"returned", "returnedEmpty", "thrown", "thrown404", "thrown503"})
  /\ (moca.st = "requesting") ~> (moca.st \in {"returned", "thrown"})

C25_Witness ==
  /\ seq.step = "responded"
  /\ Len(seq.batch) = MaxBatch
  /\ seq.path = "deal"
  /\ Len(seq.started) = MaxBatch
  /\ \A k \in 1..MaxBatch : seq.threw[k]

\* the batch of one contact.propertyChange event, correctly signed, whose contact
\* has an email and neither company nor deal associations, was the first event
\* ever handled and has been answered
SingleContactAnswered ==
  /\ Responded200
  /\ header = Header(computeSignature(webhookSecret, rawBody))
  /\ Len(batch) = 1
  /\ batch[1].subscriptionType = "contact.propertyChange"
  /\ evCount = 1
  /\ changes = 0
  /\ lastEv.clean
  /\ rEmail[batch[1].objectId] # ""
  /\ RemoteContactCompanies(batch[1].objectId) = <<>>
  /\ RemoteContactDeals(batch[1].objectId) = <<>>

\* C26: a correctly signed batch of one contact.propertyChange event whose remote
\* contact has a non-empty email and no company or deal association is answered
\* with processed = 1 and leaves exactly one Contact row, keyed by that email and
\* hubspotId, and no Company or Deal row
C26_SingleContactSynced ==
  SingleContactAnswered =>
    /\ response.processed = 1
    /\ Cardinality(db.contacts) = 1
    /\ \A row \in db.contacts :
         row.hubspotId = batch[1].objectId /\ row.email = rEmail[batch[1].objectId]
    /\ db.companies = {}
    /\ db.deals = {}

\* a failure without an HTTP status
Transport(resp) == ~resp.ok /\ resp.status = 0

Retried == retry.mode \in {"Retry", "getContactById"} /\ retry.invocations > 0

\* the exponential backoff after failed attempt k
Backoff(k) ==
  Min((IF retry.mode = "Retry" THEN initialDelay ELSE retryDelay)
        * Pow(backoffMultiplier, k - 1), maxDelay)

\* a wait followed the last invocation
Waited == Len(retry.sleeps) = retry.invocations

\* C27: an invocation failing without an HTTP status is followed, after the
\* backoff wait, by another invocation, unless it was the last attempt allowed
C27_TransportFailureRetried ==
  (Retried /\ Transport(retry.last)) =>
    \/ retry.st = "calling" /\ Waited /\ retry.sleeps[retry.invocations] = Backoff(retry.invocations)
    \/ retry.st # "calling" /\ retry.invocations = AttemptLimit

\* C28: the wait after failed attempt k, when the failure carried no Retry-After
\* header, is min(initialDelay * multiplier^(k-1), maxDelay): 1000 ms after the
\* first attempt, 2000 ms after the second
C28_BackoffDelays ==
  (Retried /\ ~retry.last.ok /\ retry.last.retryAfter = NoRetryAfter /\ Waited) =>
    /\ retry.sleeps[retry.invocations] = Backoff(retry.invocations)
    /\ retry.invocations = 1 => retry.sleeps[1] = 1000
    /\ retry.invocations = 2 => retry.sleeps[2] = 2000

\* C29: the wait after a 429 that carries Retry-After is the header's number of
\* seconds, not the backoff
C29_RetryAfterHonoured ==
  (/\ Retried
   /\ ~retry.last.ok
   /\ retry.last.status = 429
   /\ retry.last.retryAfter # NoRetryAfter
   /\ Waited) =>
    retry.sleeps[retry.invocations] = retry.last.retryAfter[1] * 1000

\* the error in which a call that used up its attempts ends
TerminalFailure ==
  IF retry.mode = "Retry" THEN rethrown(retry.last) ELSE serviceUnavailable

\* C30: a call all of whose attempts failed with 429 or 5xx ends after exactly
\* the allowed number of invocations in a failure of status 503 that carries the
\* last error and the number of attempts
C30_ExhaustionIsRemoteUnavailable ==
  (/\ Retried
   /\ retry.transient
   /\ ~retry.last.ok
   /\ retry.st # "calling") =>
    /\ retry.invocations = AttemptLimit
    /\ retry.st \in {"thrown", "thrown503"}
    /\ TerminalFailure.status = 503
    /\ TerminalFailure.lastError = retry.last
    /\ TerminalFailure.attempts = AttemptLimit

\* C31: a failed read of a contact's companies, or of its deals, counts as no
\* association of that type: the event does not fail because of it, the Contact
\* row is the one a clean run writes, no row of the failed type is written, and
\* the rows of the other type are those a clean run writes
C31_AssociationReadFailureIsEmpty ==
  (AtEvent /\ EvKind = "contact") =>
    \A b \in BOOLEAN :
      LET clean == Run(db, {}, b)
          noCompanies == Run(db, {Call("getContactCompanies", EvId)}, b)
          noDeals == Run(db, {Call("getContactDeals", EvId)}, b)
      IN ~clean.threw =>
           /\ ~noCompanies.threw
           /\ noCompanies.db.contacts = clean.db.contacts
           /\ noCompanies.db.companies = db.companies
           /\ noCompanies.db.deals = clean.db.deals
           /\ noCompanies.db.lineItems = clean.db.lineItems
           /\ ~noDeals.threw
           /\ noDeals.db.contacts = clean.db.contacts
           /\ noDeals.db.companies = clean.db.companies
           /\ noDeals.db.deals = db.deals
           /\ noDeals.db.lineItems = db.lineItems

\* the first event handled was a contact event whose companies could not be read:
\* the contact and all its deals are stored, no company is
C31_Witness ==
  /\ lastEv.kind = "contact"
  /\ ~lastEv.threw
  /\ ~lastEv.clean
  /\ evCount = 1
  /\ Synced(db.contacts, 1)
  /\ db.companies = {}
  /\ Cardinality(db.deals) = NDeals
  /\ Cardinality(db.lineItems) = NLineItems

\* the contact data upsertContact receives for remote contact c
IncomingContact(c) ==
  [firstname |-> <<"firstname", c>>, lastname |-> <<"lastname", c>>,
   email |-> rEmail[c], hubspotId |-> c]

RowOfHubspotId(rows, c) == CHOOSE row \in rows : row.hubspotId = c

\* C32: when the incoming email matches one Contact row and the incoming
\* hubspotId another, upsertContact succeeds and rewrites the row that holds the
\* hubspotId, whichever row findOne happens to return
C32_HubspotIdRowWins ==
  \A c \in ContactIds :
    Ambiguous(db.contacts, c, rEmail) =>
      \A byEmail \in BOOLEAN :
        LET r == upsertContact(db, findOneByEmailOrHubspotId(db.contacts, IncomingContact(c).email,
                                 IncomingContact(c).hubspotId, byEmail), IncomingContact(c), {})
        IN /\ r.ok
           /\ r.id = RowOfHubspotId(db.contacts, c).id
           /\ \E row \in r.db.contacts :
                row.id = r.id /\ row.hubspotId = c /\ row.email = rEmail[c]

\* rows of a table that the handling of the event wrote
Written(before, after) == after \ before

LocalIds(rows) == {row.id : row \in rows}

\* the deal a line item row belongs to in the remote CRM
DealsOfLineItem(l) == {dl \in DealIds : l \in Range(rLineItems[dl])}

\* C33: every Company or Deal row an event writes carries the local id of the
\* Contact row of the event's contact, which is in the store; every LineItem row
\* it writes carries the local id of the row of its deal; and no dependent row
\* of the store left references a local id that is absent from it
C33_ParentBeforeDependents ==
  AtEvent =>
    \A F \in EvFaults, b \in BOOLEAN :
      LET r == Run(db, F, b)
          owner == {row \in r.db.contacts : row.hubspotId = ContactOf(EvKind, EvId)}
      IN /\ \A row \in Written(db.companies, r.db.companies)
                        \cup Written(db.deals, r.db.deals) :
                \E c \in owner : row.contactId = c.id
         /\ \A li \in Written(db.lineItems, r.db.lineItems) :
                \E dl \in r.db.deals :
                  dl.id = li.dealId /\ dl.hubspotId \in DealsOfLineItem(li.hubspotId)
         /\ \A row \in r.db.companies \cup r.db.deals :
                row.contactId \in LocalIds(r.db.contacts)
         /\ \A li \in r.db.lineItems : li.dealId \in LocalIds(r.db.deals)

\* a deal event stored its contact, then the companies, the deal and the line
\* items, all linked to the ids the store gave
C33_Witness ==
  /\ lastEv.kind = "deal"
  /\ ~lastEv.threw
  /\ Synced(db.contacts, 1)
  /\ Cardinality(db.companies) = NCompanies
  /\ Synced(db.deals, 1)
  /\ \A row \in db.companies \cup db.deals :
       row.contactId = RowOfHubspotId(db.contacts, 1).id
  /\ Cardinality(db.lineItems) = NLineItems
  /\ \A li \in db.lineItems : li.dealId \in LocalIds(db.deals)

\* the downstream system gave no response to any request of this sync
Unreachable ==
  /\ moca.logged
  /\ moca.result = Null
  /\ \A i \in 1..Len(moca.log) : moca.log[i].status = 0

\* C34: when the downstream system is unreachable, no create or update request
\* is sent to it, and the contact's row records the failed attempt:
\* syncStatus = false and syncedAt set
C34_UnreachableSkipsAndRecords ==
  Unreachable =>
    /\ moca.log = <<>>
    /\ moca.contact.syncStatus = FALSE
    /\ moca.contact.syncedAt # Null

\* C35: a contact whose earlier sync ended with a successful create is synced
\* with an update (PUT) from then on; a create is sent again only as the
\* fallback of an update answered 404
C35_UpdateAfterCreate ==
  (moca.round > 1 /\ moca.created) =>
    /\ moca.contact.mocaUserId # Null
    /\ moca.isUpdate
    /\ moca.fallbacks = 0 => Creates = {}

\* the table of the root object of an event
RootRows(d) == IF EvKind = "contact" THEN d.contacts ELSE d.deals

\* C36: an event that is counted in processed (its handling did not throw) had
\* its root object, the Contact of a contact event or the Deal of a deal event,
\* upserted into the store
C36_ProcessedMeansRootSynced ==
  AtEvent =>
    \A F \in EvFaults, b \in BOOLEAN :
      LET r == Run(db, F, b)
      IN countProcessed(processed, r.threw) > processed =>
           Synced(RootRows(r.db), EvId)

\* C37: every Contact row of the store has a non-empty email, whichever path
\* wrote it
C37_NoContactWithoutEmail ==
  \A row \in db.contacts : row.email # ""

\* C38: when an event that did not throw has synced a deal, the hasLineItems
\* flag of the Deal row agrees with the store left: it is TRUE exactly when a
\* LineItem row linked to that deal exists
C38_FlagAgreesWithLineItems ==
  AtEvent =>
    \A F \in EvFaults, b \in BOOLEAN :
      LET r == Run(db, F, b)
      IN Reached(r, F) =>
           \A dl \in Range(FetchedDeals(F)) :
             DealSynced(r, dl, F) =>
               \A row \in r.db.deals :
                 row.hubspotId = dl =>
                   (row.hasLineItems <=> \E li \in r.db.lineItems : li.dealId = row.id)

\* C39: getContactById sleeps only between invocations: when it has ended, the
\* number of waits is below the number of invocations, also when the last
\* invocation failed with 429
C39_NoWaitAfterLastAttempt ==
  (retry.mode = "getContactById" /\ retry.st # "calling") =>
    Len(retry.sleeps) < retry.invocations

\* the header is missing, or it is the signature neither of the raw body nor
\* of the body as the guard serialises it
MissingOrWrongSignature ==
  \/ ~header.present
  \/ /\ header.value # computeSignature(webhookSecret, rawBody)
     /\ header.value # ExpectedSignature

\* C40: with a webhook secret set, a request whose signature is missing or wrong
\* passes the guard only when APP_MODE has been configured to a value other
\* than production; with APP_MODE not set it is rejected
C40_VerificationOnByDefault ==
  (/\ verdict = "pass"
   /\ webhookSecret # <<>>
   /\ MissingOrWrongSignature) =>
    appMode \notin {Null, "production"}

====
